---------------------------- MODULE Spec2Model ----------------------------
(***************************************************************************)
(* A model of the Diffie-Hellman step-by-step simulator (src/app.js).      *)
(*                                                                         *)
(* src/app.js holds two copies of the simulator; the model follows the     *)
(* first one (lines 1-515), which has the Previous button, the verbose     *)
(* toggle and the masked value boxes.  The number-theoretic helpers are    *)
(* identical in both copies.                                               *)
(*                                                                         *)
(* Texts (the value of an input field, the content of a value box) are     *)
(* sequences of one-character strings, so that parsing and formatting are  *)
(* real conversions.  An optional value (null in the source) is the empty  *)
(* sequence, a present value v is <<v>>.                                    *)
(***************************************************************************)
EXTENDS Integers, Sequences, FiniteSets, TLC

(***************************************************************************)
(* Bounds of the exploration.                                              *)
(***************************************************************************)
\* C1: the primes p, and with them g, a, b, range up to MaxPrime.
MaxPrime == 13
\* The numbers typed into the four fields in SpecValidate range over 0..MaxIn.
MaxIn == 8

(***************************************************************************)
(* Program constants.                                                      *)
(***************************************************************************)
TOTAL_STEPS == 9

None == <<>>
Some(v) == <<v>>
IsKnown(o) == o # None
Val(o) == o[1]

\* The element of a set of one element.  A handler's intermediate result is
\* bound once, as v in {F(v) : v \in {x}}, and the statements after it use v.
TheOne(S) == CHOOSE r \in S : TRUE

(***************************************************************************)
(* Texts.                                                                  *)
(***************************************************************************)
DigitChars == <<"0", "1", "2", "3", "4", "5", "6", "7", "8", "9">>

IsDigit(c) == \E i \in 1..10 : DigitChars[i] = c

DigitVal(c) == (CHOOSE i \in 1..10 : DigitChars[i] = c) - 1

\* The white space and line terminators String.prototype.trim() removes,
\* as far as a string of this module can hold them: space, tab, line feed,
\* carriage return, form feed, vertical tab (U+000B), no-break space
\* (U+00A0), byte order mark (U+FEFF) and ogham space mark (U+1680).
WhiteSpace ==
    {" ", "\t", "\n", "\r", "\f", "", " ", "﻿", " "}

\* BigInt.prototype.toString(): the decimal digits of n >= 0, no leading zero.
RECURSIVE ToText(_)
ToText(n) ==
    IF n < 10 THEN <<DigitChars[n + 1]>>
    ELSE Append(ToText(n \div 10), DigitChars[(n % 10) + 1])

\* String.prototype.trim(): leading and trailing white space removed.
RECURSIVE TrimLeft(_)
TrimLeft(s) ==
    IF s # <<>> /\ Head(s) \in WhiteSpace THEN TrimLeft(Tail(s)) ELSE s

RECURSIVE TrimRight(_)
TrimRight(s) ==
    IF s # <<>> /\ s[Len(s)] \in WhiteSpace
    THEN TrimRight(SubSeq(s, 1, Len(s) - 1)) ELSE s

Trim(s) == TrimRight(TrimLeft(s))

\* /^[0-9]+$/.test(s)
AllDigits(s) == s # <<>> /\ \A i \in 1..Len(s) : IsDigit(s[i])

\* BigInt(s) for a string of decimal digits.
RECURSIVE DecValue(_)
DecValue(s) ==
    IF s = <<>> THEN 0
    ELSE 10 * DecValue(SubSeq(s, 1, Len(s) - 1)) + DigitVal(s[Len(s)])

ErrDigits == "Masukkan hanya angka desimal."

parseBigIntDec(str) ==
    LET s == Trim(str)
    IN  IF ~AllDigits(s) THEN [ok |-> FALSE, error |-> ErrDigits, value |-> 0]
        ELSE [ok |-> TRUE, error |-> "", value |-> DecValue(s)]

(***************************************************************************)
(* BigInt arithmetic.                                                      *)
(***************************************************************************)
Abs(x) == IF x < 0 THEN -x ELSE x

\* The % of BigInt: the remainder takes the sign of the dividend.
JsRem(x, m) == IF x >= 0 THEN x % Abs(m) ELSE -((-x) % Abs(m))

\* The while loop of modPow; sq is the local b, the running square.
RECURSIVE modPowLoop(_, _, _, _)
modPowLoop(result, sq, e, mod) ==
    IF e > 0
    THEN modPowLoop(IF e % 2 = 1 THEN JsRem(result * sq, mod) ELSE result,
                    JsRem(sq * sq, mod), e \div 2, mod)
    ELSE result

\* modPow with base and exponent taken in the wrong order.
modPowSwapped(base, exp, mod) ==
    IF mod = 1 THEN 0
    ELSE modPowLoop(1, JsRem(JsRem(exp, mod) + mod, mod), base, mod)

\* modPow without the normalization of the base into 0..mod-1.
modPowUnnormalized(base, exp, mod) ==
    IF mod = 1 THEN 0 ELSE modPowLoop(1, base, exp, mod)

modPow(base, exp, mod) ==
    IF mod = 1 THEN 0
    ELSE modPowLoop(1, JsRem(JsRem(base, mod) + mod, mod), exp, mod)

smallPrimes == <<2, 3, 5, 7, 11, 13, 17, 19, 23, 29, 31, 37>>

bases == <<2, 3, 5, 7, 11, 13, 17>>

\* n - 1 = d * 2^s with d odd: the pair <<d, s>>.
RECURSIVE splitPow2(_, _)
splitPow2(d, s) == IF d % 2 = 0 THEN splitPow2(d \div 2, s + 1) ELSE <<d, s>>

RECURSIVE checkSquares(_, _, _, _)
checkSquares(x, r, s, n) ==
    IF r < s
    THEN LET x2 == JsRem(x * x, n)
         IN  IF x2 = n - 1 THEN TRUE ELSE checkSquares(x2, r + 1, s, n)
    ELSE FALSE

\* check(w) answering that n passes for every base.
checkLenient(w, d, s, n) == TRUE

\* check(w) of isProbablePrime for the base w, with n - 1 = d * 2^s.
check(w, d, s, n) ==
    IF JsRem(w, n) = 0 THEN TRUE
    ELSE LET x == modPow(w, d, n)
         IN  IF x = 1 \/ x = n - 1 THEN TRUE ELSE checkSquares(x, 1, s, n)

\* The loop over smallPrimes: "prime", "composite" or "none" (no verdict).
RECURSIVE smallPrimeScan(_, _)
smallPrimeScan(n, i) ==
    IF i > Len(smallPrimes) THEN "none"
    ELSE IF n = smallPrimes[i] THEN "prime"
    ELSE IF n % smallPrimes[i] = 0 THEN "composite"
    ELSE smallPrimeScan(n, i + 1)

isProbablePrime(n) ==
    IF n < 2 THEN FALSE
    ELSE LET v == smallPrimeScan(n, 1)
         IN  IF v = "prime" THEN TRUE
             ELSE IF v = "composite" THEN FALSE
             ELSE LET ds == splitPow2(n - 1, 0)
                  IN  \A i \in 1..Len(bases) : check(bases[i], ds[1], ds[2], n)

(***************************************************************************)
(* The random source.  crypto.getRandomValues is an input of the model: a  *)
(* source rs = [bytes, pos] hands out the bytes of a finite sequence, in   *)
(* order, starting again at its first byte after its last.                 *)
(***************************************************************************)
\* The largest value of an element of a Uint8Array.
ByteMax == 255

Source(bytes) == [bytes |-> bytes, pos |-> 1]

nextPos(rs) == IF rs.pos >= Len(rs.bytes) THEN 1 ELSE rs.pos + 1

\* crypto.getRandomValues(bytes) followed by the loop that folds the bytes
\* into val: <<val, source after the draw>>.
RECURSIVE getRandomValue(_, _, _)
getRandomValue(rs, n, val) ==
    IF n = 0 THEN <<val, rs>>
    ELSE getRandomValue([rs EXCEPT !.pos = nextPos(rs)], n - 1,
                        val * 256 + rs.bytes[rs.pos])

\* n.toString(2).length
RECURSIVE bitLength(_)
bitLength(n) == IF n < 2 THEN 1 ELSE 1 + bitLength(n \div 2)

RECURSIVE Pow2(_)
Pow2(k) == IF k = 0 THEN 1 ELSE 2 * Pow2(k - 1)

\* The loop of randomBigIntBelow reducing the masked draw modulo the bound
\* instead of testing it.
drawBelowModulo(maxExclusive, byteLen, bitLen, rs, fuel) ==
    LET d == getRandomValue(rs, byteLen, 0)
    IN  [ok |-> TRUE, val |-> (d[1] % Pow2(bitLen)) % maxExclusive, rs |-> d[2]]

\* The loop of randomBigIntBelow returning the first masked draw untested.
drawBelowUntested(maxExclusive, byteLen, bitLen, rs, fuel) ==
    LET d == getRandomValue(rs, byteLen, 0)
    IN  [ok |-> TRUE, val |-> d[1] % Pow2(bitLen), rs |-> d[2]]

\* The while (true) loop of randomBigIntBelow.  A source of n bytes repeats
\* its draws after at most n of them, so n rejections in a row mean that the
\* loop never ends: ok is FALSE then.
RECURSIVE drawBelow(_, _, _, _, _)
drawBelow(maxExclusive, byteLen, bitLen, rs, fuel) ==
    IF fuel = 0 THEN [ok |-> FALSE, val |-> 0, rs |-> rs]
    ELSE LET d == getRandomValue(rs, byteLen, 0)
             val == d[1] % Pow2(bitLen)
         IN  IF val < maxExclusive THEN [ok |-> TRUE, val |-> val, rs |-> d[2]]
             ELSE drawBelow(maxExclusive, byteLen, bitLen, d[2], fuel - 1)

randomBigIntBelow(maxExclusive, rs) ==
    IF maxExclusive <= 0 THEN [ok |-> TRUE, val |-> 0, rs |-> rs]
    ELSE LET bitLen == bitLength(maxExclusive)
             byteLen == (bitLen + 7) \div 8
         IN  drawBelow(maxExclusive, byteLen, bitLen, rs, Len(rs.bytes))

\* r with its value moved up by lo.
shifted(r, lo) == [r EXCEPT !.val = lo + r.val]

\* randomBigIntInRange without the swap of reversed endpoints.
randomBigIntInRangeUnswapped(min, max, rs) ==
    shifted(randomBigIntBelow((max - min) + 1, rs), min)

randomBigIntInRange(min, max, rs) ==
    LET lo == IF max < min THEN max ELSE min
        hi == IF max < min THEN min ELSE max
    IN  shifted(randomBigIntBelow((hi - lo) + 1, rs), lo)

\* The randomized scan of randomPrimeInRange: the prime found, or -1.
RECURSIVE primeScan(_, _, _, _, _)
primeScan(candidate, tries, limit, minP, maxP) ==
    IF tries < limit
    THEN IF isProbablePrime(candidate) THEN candidate
         ELSE primeScan(IF candidate + 2 > maxP THEN minP ELSE candidate + 2,
                        tries + 1, limit, minP, maxP)
    ELSE -1

\* The candidates the randomized scan of randomPrimeInRange passes to
\* isProbablePrime, in order, after those of `tested`.
RECURSIVE scanTested(_, _, _, _, _, _)
scanTested(candidate, tries, limit, minP, maxP, tested) ==
    IF tries < limit
    THEN IF isProbablePrime(candidate) THEN Append(tested, candidate)
         ELSE scanTested(IF candidate + 2 > maxP THEN minP ELSE candidate + 2,
                         tries + 1, limit, minP, maxP,
                         Append(tested, candidate))
    ELSE tested

\* The fallback scan returning where it starts, untested.
primeFallbackUntested(n, maxP) == n

\* The deterministic fallback scan, and the last resort 101.
RECURSIVE primeFallback(_, _)
primeFallback(n, maxP) ==
    IF n <= maxP
    THEN IF isProbablePrime(n) THEN n ELSE primeFallback(n + 2, maxP)
    ELSE 101

\* The bounds as normalized by the first five lines of randomPrimeInRange.
normalizedRange(minP0, maxP0) ==
    LET maxP1 == IF maxP0 < 5 THEN 5 ELSE maxP0
        minP1 == IF minP0 < 5 THEN 5 ELSE minP0
        minP2 == IF minP1 % 2 = 0 THEN minP1 + 1 ELSE minP1
        maxP2 == IF maxP1 % 2 = 0 THEN maxP1 - 1 ELSE maxP1
    IN  IF minP2 > maxP2 THEN <<maxP2, minP2>> ELSE <<minP2, maxP2>>

\* The randomized scan given a budget of one try.
scanLimitOne(minP, maxP) == 1

\* const limit: the bound on the tries of the randomized scan.
scanLimit(minP, maxP) == ((maxP - minP) \div 2) + 2

\* The candidates the randomized scan tests when c is drawn in minP..maxP.
testedFromDraw(c, minP, maxP) ==
    scanTested(IF c % 2 = 0 THEN c + 1 ELSE c, 0, scanLimit(minP, maxP),
               minP, maxP, <<>>)

\* The value returned once the randomized scan has ended with `found`.
scanOrFallback(found, minP, maxP) ==
    IF found # -1 THEN found ELSE primeFallback(minP, maxP)

\* randomPrimeInRange returning the drawn candidate, made odd, untested.
primeFromDrawUntested(c, minP, maxP) ==
    IF ~c.ok THEN [c EXCEPT !.val = 0]
    ELSE [c EXCEPT !.val = IF c.val % 2 = 0 THEN c.val + 1 ELSE c.val]

\* randomPrimeInRange from the drawn candidate c on.
primeFromDraw(c, minP, maxP) ==
    IF ~c.ok THEN [c EXCEPT !.val = 0]
    ELSE [c EXCEPT !.val =
            scanOrFallback(
                primeScan(IF c.val % 2 = 0 THEN c.val + 1 ELSE c.val, 0,
                          scanLimit(minP, maxP), minP, maxP),
                minP, maxP)]

primeInNormalized(r, rs) ==
    primeFromDraw(randomBigIntInRange(r[1], r[2], rs), r[1], r[2])

randomPrimeInRange(minP0, maxP0, rs) ==
    primeInNormalized(normalizedRange(minP0, maxP0), rs)

\* out.push(f), whether out includes f or not.
pushAlways(out, f) == Append(out, f)

\* out.includes(f) ? out : out.push(f)
pushNew(out, f) ==
    IF \E i \in 1..Len(out) : out[i] = f THEN out ELSE Append(out, f)

RECURSIVE factorTwos(_, _)
factorTwos(x, out) ==
    IF x % 2 = 0 THEN factorTwos(x \div 2, pushNew(out, 2)) ELSE <<x, out>>

RECURSIVE factorOdd(_, _, _)
factorOdd(x, f, out) ==
    IF f * f <= x
    THEN IF x % f = 0 THEN factorOdd(x \div f, f, pushNew(out, f))
         ELSE factorOdd(x, f + 2, out)
    ELSE IF x > 1 THEN pushNew(out, x) ELSE out

\* For n >= 1 (the first loop of the source does not end for n = 0).
primeFactorsDistinct(n) ==
    LET t == factorTwos(n, <<>>)
    IN  factorOdd(t[1], 3, t[2])

\* The inner loop of findGenerator: no factor q of phi has gCand^(phi/q) = 1.
isGenerator(gCand, phi, factors, pp) ==
    \A i \in 1..Len(factors) : modPow(gCand, phi \div factors[i], pp) # 1

GeneratorAttempts == 64

\* One pass of the randomized for loop, the candidate c drawn: val is the
\* generator found, or -1.
generatorTest(c, pp, phi, factors) ==
    IF ~c.ok THEN [ok |-> FALSE, val |-> 0, rs |-> c.rs]
    ELSE IF isGenerator(c.val, phi, factors, pp) THEN c
    ELSE [ok |-> TRUE, val |-> -1, rs |-> c.rs]

\* A candidate drawn in 1..p-1.
drawCandidateWide(pp, rs) == randomBigIntInRange(1, pp - 1, rs)

\* const gCand = randomBigIntInRange(2n, p - 2n)
drawCandidate(pp, rs) == randomBigIntInRange(2, pp - 2, rs)

generatorAttempt(pp, phi, factors, rs) ==
    generatorTest(drawCandidate(pp, rs), pp, phi, factors)

\* The trace t = [open, rs, drawn] of the randomized for loop, one pass
\* later, the candidate c drawn in that pass: drawn holds the candidates
\* drawn so far, in order, and open tells that the loop goes on.
candidateAdded(t, c, pp, phi, factors) ==
    IF ~c.ok THEN [t EXCEPT !.open = FALSE]
    ELSE [open |-> ~isGenerator(c.val, phi, factors, pp), rs |-> c.rs,
          drawn |-> Append(t.drawn, c.val)]

candidatePass(t, pp, phi, factors) ==
    IF t.open THEN candidateAdded(t, drawCandidate(pp, t.rs), pp, phi, factors)
    ELSE t

\* The trace t after n more passes: the first half of them, then the rest.
RECURSIVE candidatePasses(_, _, _, _, _)
RECURSIVE candidateRest(_, _, _, _, _)
candidateRest(h, n, pp, phi, factors) ==
    IF h.open THEN candidatePasses(n, h, pp, phi, factors) ELSE h

candidatePasses(n, t, pp, phi, factors) ==
    IF n = 1 THEN candidatePass(t, pp, phi, factors)
    ELSE candidateRest(candidatePasses(n \div 2, t, pp, phi, factors),
                       n - (n \div 2), pp, phi, factors)

\* The candidates findGenerator(p) draws, in order, from the source rs.
candidatesDrawn(pp, rs) ==
    candidatePasses(GeneratorAttempts,
                    [open |-> TRUE, rs |-> rs, drawn |-> <<>>],
                    pp, pp - 1, primeFactorsDistinct(pp - 1)).drawn

\* n passes of the for loop in a row, the first from source rs: the first
\* half of them (h), then, if none returned, the rest.
RECURSIVE generatorDraws(_, _, _, _, _)
RECURSIVE generatorRest(_, _, _, _, _)
generatorRest(h, n, pp, phi, factors) ==
    IF ~h.ok \/ h.val # -1 THEN h
    ELSE generatorDraws(n, pp, phi, factors, h.rs)

generatorDraws(n, pp, phi, factors, rs) ==
    IF n = 1 THEN generatorAttempt(pp, phi, factors, rs)
    ELSE generatorRest(generatorDraws(n \div 2, pp, phi, factors, rs),
                       n - (n \div 2), pp, phi, factors)

RECURSIVE generatorFallback(_, _, _, _)
generatorFallback(gCand, pp, phi, factors) ==
    IF gCand <= pp - 2
    THEN IF isGenerator(gCand, phi, factors, pp) THEN gCand
         ELSE generatorFallback(gCand + 1, pp, phi, factors)
    ELSE 2

\* findGenerator once the randomized loop has ended with d.
generatorOrFallback(d, pp, phi, factors) ==
    IF d.ok /\ d.val = -1
    THEN [d EXCEPT !.val = generatorFallback(2, pp, phi, factors)]
    ELSE d

findGeneratorWith(pp, phi, factors, rs) ==
    generatorOrFallback(generatorDraws(GeneratorAttempts, pp, phi, factors, rs),
                        pp, phi, factors)

findGenerator(pp, rs) ==
    findGeneratorWith(pp, pp - 1, primeFactorsDistinct(pp - 1), rs)

(***************************************************************************)
(* The session: the module-level variables of the script and the parts of  *)
(* the page it reads and writes.                                           *)
(***************************************************************************)
VARIABLES
    stepIdx,              \* 0..9, 0 = not started
    timer,                \* TRUE when `timer` holds an interval handle
    intervals,            \* number of interval timers set and not cleared
    verbose,
    p, g, a, b,           \* the stored quadruple
    A, B, sAlice, sBob,   \* the derived values, None when null
    pInput, gInput, aInput, bInput,   \* the value of the four fields
    msgBox,
    ABox, BBox, S1Box, S2Box,
    stepsBox, stepIndicator,
    btnAutoText, btnVerboseText,
    btnStepDisabled, btnPrevDisabled, btnRandomDisabled, btnValidateDisabled,
    advances,             \* observer: nextStep calls in a row since cursor 0
    recomputed,           \* observer: the last call assigned a known derived value
    call,                 \* a helper function called on its own, with its arguments
    ret,                  \* the value that call has returned, None before it returns
    life,                 \* the variables of the background script, <<>> when left out
    copying               \* the texts of the clipboard writes awaited, in order

vars ==
    <<stepIdx, timer, intervals, verbose, p, g, a, b, A, B, sAlice, sBob,
      pInput, gInput, aInput, bInput, msgBox, ABox, BBox, S1Box, S2Box,
      stepsBox, stepIndicator, btnAutoText, btnVerboseText,
      btnStepDisabled, btnPrevDisabled, btnRandomDisabled, btnValidateDisabled,
      advances, recomputed, call, ret, life, copying>>

\* The variables of the page and of the script, and the two observers.
pageVars ==
    <<stepIdx, timer, intervals, verbose, p, g, a, b, A, B, sAlice, sBob,
      pInput, gInput, aInput, bInput, msgBox, ABox, BBox, S1Box, S2Box,
      stepsBox, stepIndicator, btnAutoText, btnVerboseText,
      btnStepDisabled, btnPrevDisabled, btnRandomDisabled, btnValidateDisabled,
      advances, recomputed>>

\* No helper function is called on its own, at the start and in a step, and
\* no clipboard write is awaited or settles.  The background script, which
\* shares no variable with the simulator, is left out as well.
NotCalled == call = <<>> /\ ret = None /\ life = <<>> /\ copying = <<>>
NoCall == UNCHANGED <<call, ret, life, copying>>

\* The current state as one record; the handlers below map such a record to
\* the record after the handler has returned.
Cur ==
    [stepIdx |-> stepIdx, timer |-> timer, intervals |-> intervals,
     verbose |-> verbose, p |-> p, g |-> g, a |-> a, b |-> b,
     A |-> A, B |-> B, sAlice |-> sAlice, sBob |-> sBob,
     pInput |-> pInput, gInput |-> gInput, aInput |-> aInput, bInput |-> bInput,
     msgBox |-> msgBox, ABox |-> ABox, BBox |-> BBox, S1Box |-> S1Box,
     S2Box |-> S2Box, stepsBox |-> stepsBox, stepIndicator |-> stepIndicator,
     btnAutoText |-> btnAutoText, btnVerboseText |-> btnVerboseText,
     btnStepDisabled |-> btnStepDisabled, btnPrevDisabled |-> btnPrevDisabled,
     btnRandomDisabled |-> btnRandomDisabled,
     btnValidateDisabled |-> btnValidateDisabled]

\* The variables take the fields of s, evaluated once as r.
Becomes(s) ==
    \E r \in {s} :
        /\ stepIdx' = r.stepIdx /\ timer' = r.timer /\ intervals' = r.intervals
        /\ verbose' = r.verbose
        /\ p' = r.p /\ g' = r.g /\ a' = r.a /\ b' = r.b
        /\ A' = r.A /\ B' = r.B /\ sAlice' = r.sAlice /\ sBob' = r.sBob
        /\ pInput' = r.pInput /\ gInput' = r.gInput
        /\ aInput' = r.aInput /\ bInput' = r.bInput
        /\ msgBox' = r.msgBox
        /\ ABox' = r.ABox /\ BBox' = r.BBox /\ S1Box' = r.S1Box /\ S2Box' = r.S2Box
        /\ stepsBox' = r.stepsBox /\ stepIndicator' = r.stepIndicator
        /\ btnAutoText' = r.btnAutoText /\ btnVerboseText' = r.btnVerboseText
        /\ btnStepDisabled' = r.btnStepDisabled
        /\ btnPrevDisabled' = r.btnPrevDisabled
        /\ btnRandomDisabled' = r.btnRandomDisabled
        /\ btnValidateDisabled' = r.btnValidateDisabled

StateIs(s) ==
    /\ stepIdx = s.stepIdx /\ timer = s.timer /\ intervals = s.intervals
    /\ verbose = s.verbose
    /\ p = s.p /\ g = s.g /\ a = s.a /\ b = s.b
    /\ A = s.A /\ B = s.B /\ sAlice = s.sAlice /\ sBob = s.sBob
    /\ pInput = s.pInput /\ gInput = s.gInput
    /\ aInput = s.aInput /\ bInput = s.bInput
    /\ msgBox = s.msgBox
    /\ ABox = s.ABox /\ BBox = s.BBox /\ S1Box = s.S1Box /\ S2Box = s.S2Box
    /\ stepsBox = s.stepsBox /\ stepIndicator = s.stepIndicator
    /\ btnAutoText = s.btnAutoText /\ btnVerboseText = s.btnVerboseText
    /\ btnStepDisabled = s.btnStepDisabled
    /\ btnPrevDisabled = s.btnPrevDisabled
    /\ btnRandomDisabled = s.btnRandomDisabled
    /\ btnValidateDisabled = s.btnValidateDisabled

Unknown == <<"?">>
Dots == <<".", ".", ".">>
DotsQ == <<".", ".", ".", "?">>

\* readInputs reporting a bad g before a bad p.
readInputsGFirst(s) ==
    LET pV == parseBigIntDec(s.pInput)
        gV == parseBigIntDec(s.gInput)
        aV == parseBigIntDec(s.aInput)
        bV == parseBigIntDec(s.bInput)
        bad(e) == [ok |-> FALSE, error |-> e, p |-> 0, g |-> 0, a |-> 0, b |-> 0]
    IN  IF ~gV.ok THEN bad("g: " \o gV.error)
        ELSE IF ~pV.ok THEN bad("p: " \o pV.error)
        ELSE IF ~aV.ok THEN bad("a: " \o aV.error)
        ELSE IF ~bV.ok THEN bad("b: " \o bV.error)
        ELSE [ok |-> TRUE, error |-> "", p |-> pV.value, g |-> gV.value,
              a |-> aV.value, b |-> bV.value]

readInputs(s) ==
    LET pV == parseBigIntDec(s.pInput)
        gV == parseBigIntDec(s.gInput)
        aV == parseBigIntDec(s.aInput)
        bV == parseBigIntDec(s.bInput)
        bad(e) == [ok |-> FALSE, error |-> e, p |-> 0, g |-> 0, a |-> 0, b |-> 0]
    IN  IF ~pV.ok THEN bad("p: " \o pV.error)
        ELSE IF ~gV.ok THEN bad("g: " \o gV.error)
        ELSE IF ~aV.ok THEN bad("a: " \o aV.error)
        ELSE IF ~bV.ok THEN bad("b: " \o bV.error)
        ELSE [ok |-> TRUE, error |-> "", p |-> pV.value, g |-> gV.value,
              a |-> aV.value, b |-> bV.value]

setMessage(s, msg) == [s EXCEPT !.msgBox = msg]

MsgPSmall == "p harus >= 3."
MsgPNotPrime == "p tampaknya bukan prima."
MsgGRange == "g harus dalam rentang 2 .. p-1."
MsgARange == "a harus dalam rentang 2 .. p-2."
MsgBRange == "b harus dalam rentang 2 .. p-2."
MsgValid == "Parameter valid."
MsgFix == "Perbaiki parameter terlebih dahulu."

\* validateError accepting a = p - 1.
validateErrorWideA(R) ==
    IF ~R.ok THEN R.error
    ELSE IF R.p < 3 THEN MsgPSmall
    ELSE IF ~isProbablePrime(R.p) THEN MsgPNotPrime
    ELSE IF R.g <= 1 \/ R.g >= R.p THEN MsgGRange
    ELSE IF R.a < 2 \/ R.a > R.p - 1 THEN MsgARange
    ELSE IF R.b < 2 \/ R.b >= R.p - 1 THEN MsgBRange
    ELSE ""

\* validateError accepting g = p.
validateErrorLoose(R) ==
    IF ~R.ok THEN R.error
    ELSE IF R.p < 3 THEN MsgPSmall
    ELSE IF ~isProbablePrime(R.p) THEN MsgPNotPrime
    ELSE IF R.g <= 1 \/ R.g > R.p THEN MsgGRange
    ELSE IF R.a < 2 \/ R.a >= R.p - 1 THEN MsgARange
    ELSE IF R.b < 2 \/ R.b >= R.p - 1 THEN MsgBRange
    ELSE ""

\* The message of the first check of validateParams that fails, "" if none.
validateError(R) ==
    IF ~R.ok THEN R.error
    ELSE IF R.p < 3 THEN MsgPSmall
    ELSE IF ~isProbablePrime(R.p) THEN MsgPNotPrime
    ELSE IF R.g <= 1 \/ R.g >= R.p THEN MsgGRange
    ELSE IF R.a < 2 \/ R.a >= R.p - 1 THEN MsgARange
    ELSE IF R.b < 2 \/ R.b >= R.p - 1 THEN MsgBRange
    ELSE ""

\* validateEnd storing what was read even when a check has failed.
validateEndStoring(s, showMsgs, R, e) ==
    IF e # ""
    THEN [ok |-> FALSE,
          st |-> [s EXCEPT !.p = R.p, !.g = R.g, !.a = R.a, !.b = R.b,
                           !.msgBox = IF showMsgs THEN e ELSE @]]
    ELSE [ok |-> TRUE,
          st |-> [s EXCEPT !.p = R.p, !.g = R.g, !.a = R.a, !.b = R.b,
                           !.msgBox = IF showMsgs THEN MsgValid ELSE @]]

\* validateParams from the first failed check's message e on ("" if none).
validateEnd(s, showMsgs, R, e) ==
    IF e # ""
    THEN [ok |-> FALSE, st |-> IF showMsgs THEN setMessage(s, e) ELSE s]
    ELSE [ok |-> TRUE,
          st |-> [s EXCEPT !.p = R.p, !.g = R.g, !.a = R.a, !.b = R.b,
                           !.msgBox = IF showMsgs THEN MsgValid ELSE @]]

validateRead(s, showMsgs, R) ==
    TheOne({validateEnd(s, showMsgs, R, e) : e \in {validateError(R)}})

\* validateParams(showMsgs): the value returned (ok) and the state it leaves (st).
validateParams(s, showMsgs) ==
    TheOne({validateRead(s, showMsgs, R) : R \in {readInputs(s)}})

clearComputed(s) ==
    [s EXCEPT !.A = None, !.B = None, !.sAlice = None, !.sBob = None,
              !.ABox = Unknown, !.BBox = Unknown,
              !.S1Box = Unknown, !.S2Box = Unknown]

boxText(shown, o) == IF shown /\ IsKnown(o) THEN ToText(Val(o)) ELSE Unknown

\* updateComputedBoxes showing every derived value that is known, whatever
\* the cursor.
updateComputedBoxesUnmasked(s) ==
    [s EXCEPT !.ABox = boxText(TRUE, s.A),
              !.BBox = boxText(TRUE, s.B),
              !.S1Box = boxText(TRUE, s.sAlice),
              !.S2Box = boxText(TRUE, s.sBob)]

updateComputedBoxes(s) ==
    [s EXCEPT !.ABox = boxText(s.stepIdx >= 3, s.A),
              !.BBox = boxText(s.stepIdx >= 5, s.B),
              !.S1Box = boxText(s.stepIdx >= 7, s.sAlice),
              !.S2Box = boxText(s.stepIdx >= 8, s.sBob)]

\* `Langkah ${stepIdx}/${TOTAL_STEPS}`: the two numbers it shows.
setStepIndicator(s) ==
    [s EXCEPT !.stepIndicator = <<ToText(s.stepIdx), ToText(TOTAL_STEPS)>>]

orText(o, alt) == IF IsKnown(o) THEN ToText(Val(o)) ELSE alt

\* The two verdicts of step 9, without their signs.
MsgMatch == "cocok"
MsgNoMatch == "tidak cocok"

\* The verdict of step 9.
verifyOk(s) == IsKnown(s.sAlice) /\ IsKnown(s.sBob) /\ s.sAlice = s.sBob

\* steps[n].calc: the texts interpolated into the calculation line of step n.
stepCalc(s, n) ==
    LET pS == ToText(s.p)
        gS == ToText(s.g)
        aS == ToText(s.a)
        bS == ToText(s.b)
    IN  CASE n = 1 -> <<pS, gS>>
          [] n = 2 -> <<aS>>
          [] n = 3 -> <<gS, aS, pS, orText(s.A, Dots)>>
          [] n = 4 -> <<bS>>
          [] n = 5 -> <<gS, bS, pS, orText(s.B, Dots)>>
          [] n = 6 -> <<>>
          [] n = 7 -> <<orText(s.B, <<"B">>), aS, pS, orText(s.sAlice, Dots)>>
          [] n = 8 -> <<orText(s.A, <<"A">>), bS, pS, orText(s.sBob, Dots)>>
          [] n = 9 -> <<orText(s.sAlice, DotsQ), orText(s.sBob, DotsQ),
                        <<IF verifyOk(s) THEN MsgMatch ELSE MsgNoMatch>> >>

\* stepsBox after stepsBox.textContent = ''.
EmptySteps == [html |-> FALSE, verbose |-> FALSE, steps |-> <<>>]

renderSteps(s) ==
    setStepIndicator(
        [s EXCEPT !.stepsBox =
            [html |-> TRUE, verbose |-> s.verbose,
             steps |-> [n \in 1..s.stepIdx |-> stepCalc(s, n)]]])

(***************************************************************************)
(* The handlers.  Each maps the state before the call to the state after   *)
(* it has returned, with every call it makes included.                     *)
(***************************************************************************)
\* A = modPow(g, a, p), and the three other assignments of nextStep.
deriveA(s) == Some(modPow(s.g, s.a, s.p))

\* B computed with Alice's secret.
deriveBWithA(s) == Some(modPow(s.g, s.a, s.p))

deriveB(s) == Some(modPow(s.g, s.b, s.p))

\* sAlice computed with Bob's secret.
deriveSAliceWithB(s) == Some(modPow(Val(s.B), s.b, s.p))

deriveSAlice(s) == Some(modPow(Val(s.B), s.a, s.p))

\* sBob computed with Alice's secret.
deriveSBobWithA(s) == Some(modPow(Val(s.A), s.a, s.p))

deriveSBob(s) == Some(modPow(Val(s.A), s.b, s.p))

\* if (B === null) B = ...; and the same for A.
ensureB(s) == IF s.B = None THEN [s EXCEPT !.B = deriveB(s)] ELSE s
ensureA(s) == IF s.A = None THEN [s EXCEPT !.A = deriveA(s)] ELSE s

setSAlice(s) == [s EXCEPT !.sAlice = deriveSAlice(s)]
setSBob(s) == [s EXCEPT !.sBob = deriveSBob(s)]

\* stepSwitch dropping A when it computes B.
stepSwitchForgetful(s) ==
    CASE s.stepIdx = 3 -> [s EXCEPT !.A = deriveA(s)]
      [] s.stepIdx = 5 -> [s EXCEPT !.B = deriveB(s), !.A = None]
      [] s.stepIdx = 7 -> setSAlice(ensureB(s))
      [] s.stepIdx = 8 -> setSBob(ensureA(s))
      [] OTHER -> s

\* The switch of nextStep, on the cursor already incremented.
stepSwitch(s) ==
    CASE s.stepIdx = 3 -> [s EXCEPT !.A = deriveA(s)]
      [] s.stepIdx = 5 -> [s EXCEPT !.B = deriveB(s)]
      [] s.stepIdx = 7 -> setSAlice(ensureB(s))
      [] s.stepIdx = 8 -> setSBob(ensureA(s))
      [] OTHER -> s

\* advance starting over after the last step.
advanceWrap(s) ==
    IF s.stepIdx >= TOTAL_STEPS
    THEN renderSteps(updateComputedBoxes(clearComputed([s EXCEPT !.stepIdx = 0])))
    ELSE renderSteps(updateComputedBoxes(
             stepSwitch([s EXCEPT !.stepIdx = @ + 1])))

\* nextStep past the validation gate.
advance(s) ==
    IF s.stepIdx >= TOTAL_STEPS THEN s
    ELSE TheOne({renderSteps(u) :
                    u \in {updateComputedBoxes(w) :
                              w \in {stepSwitch([s EXCEPT !.stepIdx = @ + 1])}}})

\* nextStepGate letting a failed validation through.
nextStepUngated(v) == advance(v.st)

\* nextStep once validateParams(false) has returned v.
nextStepGate(v) == IF ~v.ok THEN setMessage(v.st, MsgFix) ELSE advance(v.st)

nextStep(s) == TheOne({nextStepGate(v) : v \in {validateParams(s, FALSE)}})

\* The calls of modPow made by the switch of nextStep, in order, each as
\* <<base, exponent, modulus>>, on the cursor already incremented.
callsOfSwitch(s) ==
    CASE s.stepIdx = 3 -> << <<s.g, s.a, s.p>> >>
      [] s.stepIdx = 5 -> << <<s.g, s.b, s.p>> >>
      [] s.stepIdx = 7 ->
            (IF s.B = None THEN << <<s.g, s.b, s.p>> >> ELSE <<>>)
            \o << <<Val(ensureB(s).B), s.a, s.p>> >>
      [] s.stepIdx = 8 ->
            (IF s.A = None THEN << <<s.g, s.a, s.p>> >> ELSE <<>>)
            \o << <<Val(ensureA(s).A), s.b, s.p>> >>
      [] OTHER -> <<>>

\* The calls of modPow made by nextStep past the validation gate.
callsOfAdvance(s) ==
    IF s.stepIdx >= TOTAL_STEPS THEN <<>>
    ELSE callsOfSwitch([s EXCEPT !.stepIdx = @ + 1])

\* The calls of modPow made by nextStep once validateParams(false) has
\* returned v.
callsOfGate(v) == IF ~v.ok THEN <<>> ELSE callsOfAdvance(v.st)

\* The call of modPow made by check(w) of isProbablePrime, if it makes one.
callsOfCheck(w, d, n) == IF JsRem(w, n) = 0 THEN <<>> ELSE << <<w, d, n>> >>

\* The calls of modPow made by the loop over the bases from the i-th base
\* on, which ends at the first base whose check fails.
RECURSIVE callsOfBases(_, _, _, _)
callsOfBases(i, d, s, n) ==
    IF i > Len(bases) THEN <<>>
    ELSE callsOfCheck(bases[i], d, n)
         \o (IF check(bases[i], d, s, n) THEN callsOfBases(i + 1, d, s, n)
             ELSE <<>>)

\* The calls of modPow made by isProbablePrime(n).
callsOfIsProbablePrime(n) ==
    IF n < 2 \/ smallPrimeScan(n, 1) # "none" THEN <<>>
    ELSE callsOfBases(1, splitPow2(n - 1, 0)[1], splitPow2(n - 1, 0)[2], n)

\* The calls of modPow made by validateParams once readInputs has returned
\* R: those of isProbablePrime(P), when it is reached.
callsOfValidate(R) ==
    IF ~R.ok \/ R.p < 3 THEN <<>> ELSE callsOfIsProbablePrime(R.p)

\* The calls of modPow made while nextStep runs: those of validateParams,
\* then those of the switch.
modPowCalls(s) ==
    callsOfValidate(readInputs(s))
    \o TheOne({callsOfGate(v) : v \in {validateParams(s, FALSE)}})

\* prevStep going back two steps at once.
prevStepByTwo(s) ==
    IF s.stepIdx <= 1 THEN s
    ELSE renderSteps(updateComputedBoxes([s EXCEPT !.stepIdx = @ - 2]))

\* prevStep forgetting the derived values.
prevStepClearing(s) ==
    IF s.stepIdx <= 0 THEN s
    ELSE renderSteps(updateComputedBoxes(clearComputed([s EXCEPT !.stepIdx = @ - 1])))

prevStep(s) ==
    IF s.stepIdx <= 0 THEN s
    ELSE renderSteps(updateComputedBoxes([s EXCEPT !.stepIdx = @ - 1]))

TextAuto == "Auto Play"
TextStopAuto == "Hentikan Auto"

\* stopAuto without its call of clearInterval.
stopAutoLeavingInterval(s) ==
    [s EXCEPT !.timer = FALSE,
              !.btnAutoText = TextAuto,
              !.btnStepDisabled = FALSE, !.btnPrevDisabled = FALSE,
              !.btnRandomDisabled = FALSE, !.btnValidateDisabled = FALSE]

stopAuto(s) ==
    [s EXCEPT !.intervals = IF s.timer THEN @ - 1 ELSE @,
              !.timer = FALSE,
              !.btnAutoText = TextAuto,
              !.btnStepDisabled = FALSE, !.btnPrevDisabled = FALSE,
              !.btnRandomDisabled = FALSE, !.btnValidateDisabled = FALSE]

\* startAuto without its test of a timer already running.
startAutoUnguarded(s) ==
    [s EXCEPT !.btnAutoText = TextStopAuto,
              !.btnStepDisabled = TRUE, !.btnPrevDisabled = TRUE,
              !.btnRandomDisabled = TRUE, !.btnValidateDisabled = TRUE,
              !.timer = TRUE, !.intervals = @ + 1]

\* startAuto leaving the buttons Step and Previous enabled.
startAutoOpen(s) ==
    IF s.timer THEN s
    ELSE [s EXCEPT !.btnAutoText = TextStopAuto,
                   !.btnRandomDisabled = TRUE, !.btnValidateDisabled = TRUE,
                   !.timer = TRUE, !.intervals = @ + 1]

startAuto(s) ==
    IF s.timer THEN s
    ELSE [s EXCEPT !.btnAutoText = TextStopAuto,
                   !.btnStepDisabled = TRUE, !.btnPrevDisabled = TRUE,
                   !.btnRandomDisabled = TRUE, !.btnValidateDisabled = TRUE,
                   !.timer = TRUE, !.intervals = @ + 1]

toggleAuto(s) == IF s.timer THEN stopAuto(s) ELSE startAuto(s)

\* The callback without its test of the last step.
timerCallbackEndless(s) == nextStep(s)

\* The callback given to setInterval.
timerCallback(s) ==
    IF s.stepIdx >= TOTAL_STEPS THEN stopAuto(s) ELSE nextStep(s)

\* if (R.ok) { p = R.p; ... }
storeInputs(s, R) ==
    IF R.ok THEN [s EXCEPT !.p = R.p, !.g = R.g, !.a = R.a, !.b = R.b] ELSE s

\* resetStopped leaving the cursor where it is.
resetStoppedKeepingCursor(s) ==
    renderSteps(setMessage(clearComputed(storeInputs(s, readInputs(s))), ""))

\* resetAll after its call of stopAuto.
resetStopped(s) ==
    renderSteps(setMessage(
        clearComputed([storeInputs(s, readInputs(s)) EXCEPT !.stepIdx = 0]), ""))

resetAll(s) == resetStopped(stopAuto(s))

MsgNeedValid == "p dan g harus valid untuk mengacak a,b."
MsgBadRange == "Rentang a,b tidak valid."
MsgSecrets == "a dan b diacak."
MsgAll == "Parameter p, g, a, b diacak."

\* const range = (p - 3n) + 1n
secretRange(pp) == (pp - 3) + 1

\* randomizeSecrets with both draws made.
secretsStore(s, r1, r2) ==
    IF ~r2.ok THEN [ok |-> FALSE, st |-> s]
    ELSE [ok |-> TRUE,
          st |-> renderSteps(clearComputed(setMessage(
                    [s EXCEPT !.a = r1 + 2, !.b = r2.val + 2,
                              !.aInput = ToText(r1 + 2),
                              !.bInput = ToText(r2.val + 2)],
                    MsgSecrets)))]

\* randomizeSecrets with the first draw made.
secretsSecond(s, r1) ==
    IF ~r1.ok THEN [ok |-> FALSE, st |-> s]
    ELSE secretsStore(s, r1.val, randomBigIntBelow(secretRange(s.p), r1.rs))

\* randomizeSecrets once validateParams(false) has returned v.
secretsGate(v, rs) ==
    IF ~v.ok THEN [ok |-> TRUE, st |-> setMessage(v.st, MsgNeedValid)]
    ELSE IF secretRange(v.st.p) <= 0
    THEN [ok |-> TRUE, st |-> setMessage(v.st, MsgBadRange)]
    ELSE secretsSecond(v.st, randomBigIntBelow(secretRange(v.st.p), rs))

\* randomizeSecrets, drawing from the source rs: ok is FALSE when a draw of
\* randomBigIntBelow never ends, st is the state the handler leaves.
randomizeSecrets(s, rs) == secretsGate(validateParams(s, FALSE), rs)

DemoMinP == 401
DemoMaxP == 2000

NoQuad == [ok |-> FALSE, p |-> 0, g |-> 0, a |-> 0, b |-> 0]

\* range > 0n ? randomBigIntBelow(range) + 2n : fallback
secretOrDefault(pp, rs, fallback) ==
    IF secretRange(pp) > 0
    THEN shifted(randomBigIntBelow(secretRange(pp), rs), 2)
    ELSE [ok |-> TRUE, val |-> fallback, rs |-> rs]

quadB(newP, newG, newA, newB) ==
    IF ~newB.ok THEN NoQuad
    ELSE [ok |-> TRUE, p |-> newP, g |-> newG, a |-> newA, b |-> newB.val]

quadA(newP, newG, newA) ==
    IF ~newA.ok THEN NoQuad
    ELSE quadB(newP, newG, newA.val, secretOrDefault(newP, newA.rs, 3))

quadG(newP, newG) ==
    IF ~newG.ok THEN NoQuad
    ELSE quadA(newP, newG.val, secretOrDefault(newP, newG.rs, 2))

quadP(newP) ==
    IF ~newP.ok THEN NoQuad
    ELSE quadG(newP.val, findGenerator(newP.val, newP.rs))

\* The four values randomizeAll draws from the source rs; ok is FALSE when
\* a draw never ends.
randomQuad(rs) == quadP(randomPrimeInRange(DemoMinP, DemoMaxP, rs))

\* The byte sequences the random source repeats.
RandStreams == {<<4, 13, 1>>}

Sources == {Source(bytes) : bytes \in RandStreams}

\* What randomizeAll may draw: randomQuad of each source whose draws end.
RandomQuads == {q \in {randomQuad(rs) : rs \in Sources} : q.ok}

\* randomizeStopped without stepIdx = 0 and clearComputed().
randomizeStoppedKeepingSession(s, q) ==
    renderSteps(setMessage(
        [s EXCEPT !.pInput = ToText(q.p), !.gInput = ToText(q.g),
                  !.aInput = ToText(q.a), !.bInput = ToText(q.b),
                  !.p = q.p, !.g = q.g, !.a = q.a, !.b = q.b], MsgAll))

\* randomizeAll after its call of stopAuto, having drawn the quadruple q.
randomizeStopped(s, q) ==
    renderSteps(setMessage(clearComputed(
        [s EXCEPT !.pInput = ToText(q.p), !.gInput = ToText(q.g),
                  !.aInput = ToText(q.a), !.bInput = ToText(q.b),
                  !.p = q.p, !.g = q.g, !.a = q.a, !.b = q.b,
                  !.stepIdx = 0]), MsgAll))

randomizeAll(s, q) == randomizeStopped(stopAuto(s), q)

\* The click listener of btnValidate once validateParams(true) returned v.
validateShown(v) == IF v.ok THEN renderSteps(clearComputed(v.st)) ELSE v.st

validateClick(s) == validateShown(validateParams(s, TRUE))

TextVerboseOn == "Mode Ringkas"
TextVerboseOff == "Mode Rinci"

verboseClick(s) ==
    renderSteps([s EXCEPT !.verbose = ~s.verbose,
                          !.btnVerboseText =
                              IF ~s.verbose THEN TextVerboseOn ELSE TextVerboseOff])

\* inputListener leaving the cursor where it is.
inputListenerKeepingCursor(s) ==
    setMessage(
        [setStepIndicator(clearComputed(stopAuto(s)))
            EXCEPT !.stepsBox = EmptySteps],
        "")

\* The listener of the 'input' event of the four fields.
inputListener(s) ==
    setMessage(
        [setStepIndicator([clearComputed(stopAuto(s)) EXCEPT !.stepIdx = 0])
            EXCEPT !.stepsBox = EmptySteps],
        "")

\* The user types `text` into a field: the field takes the text, then the
\* listener runs.
typeInto(s, field, text) ==
    inputListener(
        CASE field = "p" -> [s EXCEPT !.pInput = text]
          [] field = "g" -> [s EXCEPT !.gInput = text]
          [] field = "a" -> [s EXCEPT !.aInput = text]
          [] field = "b" -> [s EXCEPT !.bInput = text])

\* The messages of the listener of the copy buttons.
MsgNoCopy == "Tidak ada nilai untuk disalin."
MsgCopyFailed == "Gagal menyalin ke clipboard."

\* The characters of a text as one string.
RECURSIVE Joined(_)
Joined(text) == IF text = <<>> THEN "" ELSE Head(text) \o Joined(Tail(text))

\* `Disalin: ${text}`
MsgCopied(text) == "Disalin: " \o Joined(text)

\* el(targetId).textContent for the four spans that have a copy button.
spanText(s, targetId) ==
    CASE targetId = "A" -> s.ABox
      [] targetId = "B" -> s.BBox
      [] targetId = "S1" -> s.S1Box
      [] targetId = "S2" -> s.S2Box

\* const text = span.textContent.trim()
copyText(s, targetId) == Trim(spanText(s, targetId))

\* !text || text === '?'
nothingToCopy(text) == text = <<>> \/ text = Unknown

\* The listener of the copy buttons where navigator.clipboard.writeText is
\* missing: it runs to its end at once, the fallback having copied (done) or
\* thrown.
copyAtOnce(s, targetId, done) ==
    IF nothingToCopy(copyText(s, targetId)) THEN setMessage(s, MsgNoCopy)
    ELSE setMessage(s, IF done THEN MsgCopied(copyText(s, targetId))
                       ELSE MsgCopyFailed)

\* The listener of the copy buttons going on after its await: the write of
\* text has succeeded (done) or has been rejected.
copySettled(s, text, done) ==
    setMessage(s, IF done THEN MsgCopied(text) ELSE MsgCopyFailed)

\* The sequence q without its i-th element.
without(q, i) == SubSeq(q, 1, i - 1) \o SubSeq(q, i + 1, Len(q))

(***************************************************************************)
(* The page as loaded, and what the user and the random source may do.     *)
(***************************************************************************)
\* The variables of the script as declared, before any handler has run.
\* intervals counts the timers started by setInterval and not yet cleared.
ScriptState ==
    [stepIdx |-> 0, timer |-> FALSE, intervals |-> 0, verbose |-> FALSE,
     p |-> 23, g |-> 5, a |-> 6, b |-> 15,
     A |-> None, B |-> None, sAlice |-> None, sBob |-> None]

\* The elements of the page before the script runs: the fields show the
\* default quadruple, no button is disabled.
PageElements ==
    [pInput |-> ToText(23), gInput |-> ToText(5),
     aInput |-> ToText(6), bInput |-> ToText(15),
     msgBox |-> "", ABox |-> Unknown, BBox |-> Unknown,
     S1Box |-> Unknown, S2Box |-> Unknown,
     stepsBox |-> EmptySteps, stepIndicator |-> <<ToText(0), ToText(TOTAL_STEPS)>>,
     btnAutoText |-> TextAuto, btnVerboseText |-> TextVerboseOff,
     btnStepDisabled |-> FALSE, btnPrevDisabled |-> FALSE,
     btnRandomDisabled |-> FALSE, btnValidateDisabled |-> FALSE]

PageDefaults == ScriptState @@ PageElements

\* "Init from defaults" at the end of the script.
Loaded == renderSteps(clearComputed(validateParams(PageDefaults, FALSE).st))

\* The texts typed into each field.
TypedTexts(field) ==
    CASE field = "p" -> {ToText(23), ToText(15)}
      [] field = "g" -> {ToText(5), <<"x">>}
      [] field = "a" -> {ToText(6), ToText(22)}
      [] field = "b" -> {ToText(15)}

Fields == {"p", "g", "a", "b"}

Init == StateIs(Loaded) /\ advances = 0 /\ recomputed = FALSE /\ NotCalled

\* The observer `advances` counts the nextStep calls made in a row, with no
\* other handler in between, the first of them at cursor 0 and each with
\* valid fields; it counts one call past the last step and no further.
Counted ==
    IF ~validateParams(Cur, FALSE).ok THEN 0
    ELSE IF stepIdx = 0 THEN 1
    ELSE IF advances \in 1..TOTAL_STEPS THEN advances + 1
    ELSE 0

\* nextStep called in state s assigns a derived value that is known already
\* (cases 3, 5, 7 and 8 of the switch assign without looking).
Reassigns(s) ==
    /\ validateParams(s, FALSE).ok
    /\ s.stepIdx < TOTAL_STEPS
    /\ \/ s.stepIdx + 1 = 3 /\ IsKnown(s.A)
       \/ s.stepIdx + 1 = 5 /\ IsKnown(s.B)
       \/ s.stepIdx + 1 = 7 /\ IsKnown(s.sAlice)
       \/ s.stepIdx + 1 = 8 /\ IsKnown(s.sBob)

StepClick ==
    /\ ~btnStepDisabled
    /\ Becomes(nextStep(Cur))
    /\ advances' = Counted
    /\ recomputed' = Reassigns(Cur)
    /\ NoCall

PrevClick ==
    /\ ~btnPrevDisabled
    /\ Becomes(prevStep(Cur))
    /\ advances' = 0 /\ recomputed' = FALSE /\ NoCall

AutoClick == Becomes(toggleAuto(Cur)) /\ advances' = 0 /\ recomputed' = FALSE /\ NoCall

ResetClick == Becomes(resetAll(Cur)) /\ advances' = 0 /\ recomputed' = FALSE /\ NoCall

VerboseClick == Becomes(verboseClick(Cur)) /\ advances' = 0 /\ recomputed' = FALSE /\ NoCall

ValidateClick ==
    /\ ~btnValidateDisabled
    /\ Becomes(validateClick(Cur))
    /\ advances' = 0 /\ recomputed' = FALSE /\ NoCall

\* The outcomes of randomizeSecrets whose draws end.
secretsOutcomes(r) == IF r.ok THEN {r.st} ELSE {}

RandomClick ==
    /\ ~btnRandomDisabled
    /\ \E rs \in Sources :
          \E s \in secretsOutcomes(randomizeSecrets(Cur, rs)) : Becomes(s)
    /\ advances' = 0 /\ recomputed' = FALSE /\ NoCall

RandomAllClick ==
    /\ \E q \in RandomQuads : Becomes(randomizeAll(Cur, q))
    /\ advances' = 0 /\ recomputed' = FALSE /\ NoCall

TypeText ==
    /\ \E field \in Fields : \E text \in TypedTexts(field) :
          Becomes(typeInto(Cur, field, text))
    /\ advances' = 0 /\ recomputed' = FALSE /\ NoCall

TimerTick ==
    /\ intervals > 0
    /\ Becomes(timerCallback(Cur))
    /\ advances' = IF stepIdx >= TOTAL_STEPS THEN 0 ELSE Counted
    /\ recomputed' = (stepIdx < TOTAL_STEPS /\ Reassigns(Cur))
    /\ NoCall

\* The spans that have a copy button.
CopyTargets == {"A", "B", "S1", "S2"}

\* At most MaxCopying clipboard writes are awaited at a time.
MaxCopying == 1

\* A click on a copy button where navigator.clipboard.writeText is missing,
\* or with nothing to copy: the listener sets its message and returns.
CopyClick ==
    /\ \E targetId \in CopyTargets : \E done \in BOOLEAN :
          Becomes(copyAtOnce(Cur, targetId, done))
    /\ advances' = 0 /\ recomputed' = FALSE /\ NoCall

\* A click on a copy button with a value to copy: the listener calls
\* navigator.clipboard.writeText(text) and awaits it.
CopyClickAwaiting ==
    /\ Len(copying) < MaxCopying
    /\ \E targetId \in CopyTargets :
          /\ ~nothingToCopy(copyText(Cur, targetId))
          /\ copying' = Append(copying, copyText(Cur, targetId))
    /\ UNCHANGED <<pageVars, call, ret, life>>

\* A clipboard write succeeds or is rejected, and the listener that awaits it
\* goes on to set its message.
CopySettles ==
    /\ \E i \in 1..Len(copying) : \E done \in BOOLEAN :
          /\ Becomes(copySettled(Cur, copying[i], done))
          /\ copying' = without(copying, i)
    /\ advances' = 0 /\ recomputed' = FALSE
    /\ UNCHANGED <<call, ret, life>>

\* The events of the controls: the buttons, the four fields and the timer.
NextControls ==
    \/ StepClick \/ PrevClick \/ AutoClick \/ ResetClick \/ VerboseClick
    \/ ValidateClick \/ RandomClick \/ RandomAllClick \/ TypeText \/ TimerTick

\* The events of the copy buttons.
NextCopy == CopyClick \/ CopyClickAwaiting \/ CopySettles

Next == NextControls \/ NextCopy

Spec == Init /\ [][Next]_vars

\* SpecControls: the events of the controls alone.  The listener of the copy
\* buttons writes the message box and nothing else, and no handler reads the
\* message box (CopyKeepsSession and MessageIsNotRead below, under SpecCopy),
\* so that the copy buttons change nothing of what the controls do but the
\* message shown.
SpecControls == Init /\ [][NextControls]_vars

\* SpecCopy: the copy buttons, with Step, Previous, Validate, Reset and the
\* fields.
NextCopying ==
    \/ StepClick \/ PrevClick \/ ValidateClick \/ ResetClick \/ TypeText
    \/ NextCopy

SpecCopy == Init /\ [][NextCopying]_vars

\* The variables of the page and of the script but the message box.
exceptMsgBox ==
    <<stepIdx, timer, intervals, verbose, p, g, a, b, A, B, sAlice, sBob,
      pInput, gInput, aInput, bInput, ABox, BBox, S1Box, S2Box,
      stepsBox, stepIndicator, btnAutoText, btnVerboseText,
      btnStepDisabled, btnPrevDisabled, btnRandomDisabled, btnValidateDisabled>>

\* An event of the copy buttons changes no variable of the page or of the
\* script but the message box.
CopyKeepsSession == [][NextCopy => UNCHANGED exceptMsgBox]_vars

\* The record s with the message box emptied.
messageless(s) == [s EXCEPT !.msgBox = ""]

\* What a handler of the controls does but to the message box is the same
\* whatever the message box shows.
MessageIsNotRead ==
    \A m \in {MsgNoCopy, MsgCopyFailed, MsgCopied(ABox)} :
        /\ messageless(nextStep(setMessage(Cur, m))) = messageless(nextStep(Cur))
        /\ messageless(prevStep(setMessage(Cur, m))) = messageless(prevStep(Cur))
        /\ messageless(resetAll(setMessage(Cur, m))) = messageless(resetAll(Cur))
        /\ messageless(toggleAuto(setMessage(Cur, m)))
              = messageless(toggleAuto(Cur))
        /\ messageless(verboseClick(setMessage(Cur, m)))
              = messageless(verboseClick(Cur))
        /\ messageless(validateClick(setMessage(Cur, m)))
              = messageless(validateClick(Cur))
        /\ messageless(timerCallback(setMessage(Cur, m)))
              = messageless(timerCallback(Cur))
        /\ \A field \in Fields : \A text \in TypedTexts(field) :
              messageless(typeInto(setMessage(Cur, m), field, text))
                = messageless(typeInto(Cur, field, text))
        /\ \A rs \in Sources :
              messageless(randomizeSecrets(setMessage(Cur, m), rs).st)
                = messageless(randomizeSecrets(Cur, rs).st)
        /\ \A q \in RandomQuads :
              messageless(randomizeAll(setMessage(Cur, m), q))
                = messageless(randomizeAll(Cur, q))

\* SpecAuto: the user starts and stops auto-advance, edits the fields and
\* resets; the interval set by startAuto fires again and again as long as it
\* is not cleared.
NextAuto == AutoClick \/ TimerTick \/ TypeText \/ ResetClick

SpecAuto == Init /\ [][NextAuto]_vars /\ WF_vars(TimerTick)

(***************************************************************************)
(* Two further specifications.  Both start from the page as loaded with    *)
(* the four fields typed over, one field after the other.                  *)
(***************************************************************************)
Entered(pt, gt, at, bt) ==
    typeInto(typeInto(typeInto(typeInto(Loaded, "p", pt), "g", gt), "a", at),
             "b", bt)

\* SpecValidate: any of the texts below in the fields, then Validate clicks.
Numerals == {ToText(n) : n \in 0..MaxIn}

\* Beyond the numerals, for p: primes and composites past the table of small
\* primes (41; 1681 = 41 * 41; 8321 = 53 * 157, a strong pseudoprime to base
\* 2), and texts that are no plain numeral.
PTexts ==
    Numerals \cup
    {ToText(23), ToText(41), ToText(1681), ToText(8321),
     <<>>, <<"x">>, <<" ", "7", " ">>, <<"\t", "2", "3", "\r", "\n">>,
     <<"7", " ", "7">>, <<"0", "5">>, <<"-", "5">>}

OtherTexts == Numerals \cup {<<"x">>, <<" ", "3">>}

InitValidate ==
    /\ \E pt \in PTexts : \E gt \in OtherTexts :
         \E at \in OtherTexts : \E bt \in OtherTexts :
            StateIs(Entered(pt, gt, at, bt))
    /\ advances = 0 /\ recomputed = FALSE /\ NotCalled

NextValidate == ValidateClick

SpecValidate == InitValidate /\ [][NextValidate]_vars

\* SpecMath: every quadruple up to MaxPrime that validateParams accepts, typed
\* and validated; then the Step button is clicked.  Case 7 of nextStep takes
\* the power by b first and then by a, case 8 the power by a first and then
\* by b.
InitMath ==
    /\ \E pp \in 0..MaxPrime : \E gg \in 0..MaxPrime :
         \E aa \in 0..MaxPrime : \E bb \in 0..MaxPrime :
            /\ validateParams(
                   Entered(ToText(pp), ToText(gg), ToText(aa), ToText(bb)),
                   TRUE).ok
            /\ StateIs(validateClick(
                   Entered(ToText(pp), ToText(gg), ToText(aa), ToText(bb))))
    /\ advances = 0 /\ recomputed = FALSE /\ NotCalled

NextMath == StepClick

SpecMath == InitMath /\ [][NextMath]_vars

(***************************************************************************)
(* SpecRandom: the two randomize buttons, with the random source ranging   *)
(* over the byte sequences of up to MaxStream bytes taken from ByteValues. *)
(* It starts from the page with the four fields typed over, or advanced    *)
(* by some clicks on Step.                                                 *)
(***************************************************************************)
MaxStream == 3

ByteValues == {0, 9, 160}

AnyStreams == UNION {[1..n -> ByteValues] : n \in 1..MaxStream}

AnySources == {Source(bytes) : bytes \in AnyStreams}

\* What randomizeAll may draw from these sources.
AnyQuads == {q \in {randomQuad(rs) : rs \in AnySources} : q.ok}

\* The page as loaded after k clicks on Step.
RECURSIVE Stepped(_)
Stepped(k) ==
    IF k = 0 THEN Loaded ELSE TheOne({nextStep(s) : s \in {Stepped(k - 1)}})

\* At the start, either the fields have been typed over (small primes and a
\* composite for p, a text that is no numeral for g), or Step has been
\* clicked up to nine times on the page as loaded.
InitRandom ==
    /\ \/ \E pt \in {ToText(5), ToText(7), ToText(23), ToText(15)} :
            \E gt \in {ToText(2), <<"x">>} :
               \E at \in {ToText(2), ToText(3)} :
                  StateIs(Entered(pt, gt, at, ToText(3)))
       \/ \E k \in 1..TOTAL_STEPS : StateIs(Stepped(k))
    /\ advances = 0 /\ recomputed = FALSE /\ NotCalled

\* A click on the button that randomizes a and b.
RandomClickAny ==
    /\ ~btnRandomDisabled
    /\ \E rs \in AnySources :
          \E s \in secretsOutcomes(randomizeSecrets(Cur, rs)) : Becomes(s)
    /\ advances' = 0 /\ recomputed' = FALSE /\ NoCall

\* A click on the button that randomizes the four parameters.
RandomAllClickAny ==
    /\ \E q \in AnyQuads : Becomes(randomizeAll(Cur, q))
    /\ advances' = 0 /\ recomputed' = FALSE /\ NoCall

NextRandom == RandomClickAny \/ RandomAllClickAny \/ AutoClick

SpecRandom == InitRandom /\ [][NextRandom]_vars

\* SpecStepper: the fields typed over, with for p a prime and a composite
\* past the table of small primes (41 and 1681 = 41 * 41), then clicks on
\* Step, Previous and Validate.
InitStepper ==
    /\ \E pt \in {ToText(23), ToText(41), ToText(1681)} :
         \E gt \in {ToText(5), ToText(40)} :
            \E at \in {ToText(6), ToText(22)} :
               StateIs(Entered(pt, gt, at, ToText(15)))
    /\ advances = 0 /\ recomputed = FALSE /\ NotCalled

NextStepper == StepClick \/ PrevClick \/ ValidateClick

SpecStepper == InitStepper /\ [][NextStepper]_vars

(***************************************************************************)
(* SpecCalls: the number-theoretic helpers called on their own.  A state   *)
(* holds one call, call = <<name, arguments>>, made on the page as loaded; *)
(* the step of the call stores what it returns.  A random source is given  *)
(* as the bytes it repeats; a call whose draws never end never returns.    *)
(***************************************************************************)
\* modPow: base in -MaxBase..MaxBase, exponent in 0..MaxExp, modulus in
\* 1..MaxMod.
MaxBase == 12
MaxExp == 6
MaxMod == 7
\* isProbablePrime: n in 0..MaxTested.
MaxTested == 2050
\* randomBigIntBelow: maxExclusive in 0..MaxBelow.
MaxBelow == 9
\* randomBigIntInRange: min and max in -MaxEnd..MaxEnd.
MaxEnd == 3
\* findGenerator: the primes up to MaxGenPrime.
MaxGenPrime == 43
\* primeFactorsDistinct: n in 1..MaxFactored.
MaxFactored == 210
\* The random source repeats up to MaxDraws bytes, each in 0..MaxByte.
MaxDraws == 2
MaxByte == 7

\* randomPrimeInRange: the demo range, and minP and maxP in RangeEnds, which
\* gives ranges below 5, inverted, of one number, with and without a prime
\* (25..27 has none).
RangeEnds == {-3, 4, 8, 9, 13, 24, 25, 28, 31}

CallStreams == UNION {[1..n -> 0..MaxByte] : n \in 1..MaxDraws}

IsCall(c) ==
    \/ \E base \in (-MaxBase)..MaxBase : \E exp \in 0..MaxExp :
          \E mod \in 1..MaxMod : c = <<"modPow", base, exp, mod>>
    \/ \E n \in 0..MaxTested : c = <<"isProbablePrime", n>>
    \/ \E n \in 1..MaxFactored : c = <<"primeFactorsDistinct", n>>
    \/ \E bytes \in CallStreams :
          \/ \E maxExclusive \in 0..MaxBelow :
                c = <<"randomBigIntBelow", maxExclusive, bytes>>
          \/ \E min \in (-MaxEnd)..MaxEnd : \E max \in (-MaxEnd)..MaxEnd :
                c = <<"randomBigIntInRange", min, max, bytes>>
          \/ c = <<"randomPrimeInRange", DemoMinP, DemoMaxP, bytes>>
          \/ \E minP \in RangeEnds : \E maxP \in RangeEnds :
                c = <<"randomPrimeInRange", minP, maxP, bytes>>
          \/ \E n \in {k \in 2..MaxGenPrime : isProbablePrime(k)} :
                c = <<"findGenerator", n, bytes>>

InitCalls ==
    /\ StateIs(Loaded) /\ advances = 0 /\ recomputed = FALSE
    /\ IsCall(call) /\ ret = None /\ life = <<>> /\ copying = <<>>

\* The call in progress is a call of the function `name`.
Calling(name) == call[1] = name /\ ret = None

\* The call returns v.
Returns(v) == ret' = Some(v) /\ UNCHANGED <<call, pageVars, life, copying>>

\* The call of a function that draws returns r, if its draws end.
ReturnsDrawn(r) == r.ok /\ Returns(r)

CallModPow ==
    Calling("modPow") /\ Returns(modPow(call[2], call[3], call[4]))

CallIsProbablePrime ==
    Calling("isProbablePrime") /\ Returns(isProbablePrime(call[2]))

CallPrimeFactorsDistinct ==
    /\ Calling("primeFactorsDistinct")
    /\ Returns(primeFactorsDistinct(call[2]))

CallRandomBigIntBelow ==
    /\ Calling("randomBigIntBelow")
    /\ ReturnsDrawn(randomBigIntBelow(call[2], Source(call[3])))

CallRandomBigIntInRange ==
    /\ Calling("randomBigIntInRange")
    /\ ReturnsDrawn(randomBigIntInRange(call[2], call[3], Source(call[4])))

CallRandomPrimeInRange ==
    /\ Calling("randomPrimeInRange")
    /\ ReturnsDrawn(randomPrimeInRange(call[2], call[3], Source(call[4])))

CallFindGenerator ==
    /\ Calling("findGenerator")
    /\ ReturnsDrawn(findGenerator(call[2], Source(call[3])))

NextCalls ==
    \/ CallModPow \/ CallIsProbablePrime \/ CallPrimeFactorsDistinct
    \/ CallRandomBigIntBelow
    \/ CallRandomBigIntInRange \/ CallRandomPrimeInRange \/ CallFindGenerator

SpecCalls == InitCalls /\ [][NextCalls]_vars

(***************************************************************************)
(* SpecLife: the background script, src/life-bg.js, opened with            *)
(* ?life=glider&emit=0&density=3, so that step(), called by animate, and   *)
(* resize(), called by the timeout of the resize listener, are the         *)
(* functions that run after the page has loaded.  Its variables            *)
(* are the fields of the record `life`; a grid is a function from the      *)
(* indices 0..cols*rows-1 to 0 and 1.  Math.random is an input: a source   *)
(* rnd = [vals, pos] hands out the numbers vals[i] / RandomParts, again    *)
(* and again.                                                              *)
(***************************************************************************)
\* cols = Math.max(10, ...), rows = Math.max(10, ...)
MinSide == 10
\* cols and rows are in MinSide..MaxSide.
MaxSide == 11
\* Math.random() is k / RandomParts for a k in 0..RandomParts-1.
RandomParts == 4
\* The source of random numbers repeats up to MaxRandoms numbers.
MaxRandoms == 1
\* animate calls step() up to MaxFrames times.
MaxFrames == 64

glider == {<<1, 0>>, <<2, 1>>, <<0, 2>>, <<1, 2>>, <<2, 2>>}

lwss ==
    {<<1, 0>>, <<2, 0>>, <<3, 0>>, <<4, 0>>, <<0, 1>>, <<4, 1>>, <<4, 2>>,
     <<0, 3>>, <<3, 3>>}

mwss ==
    {<<1, 0>>, <<2, 0>>, <<3, 0>>, <<4, 0>>, <<5, 0>>, <<0, 1>>, <<5, 1>>,
     <<5, 2>>, <<0, 3>>, <<4, 3>>, <<2, 4>>}

hwss ==
    {<<1, 0>>, <<2, 0>>, <<3, 0>>, <<4, 0>>, <<5, 0>>, <<6, 0>>, <<0, 1>>,
     <<6, 1>>, <<6, 2>>, <<0, 3>>, <<5, 3>>, <<2, 4>>, <<3, 4>>}

\* const types = [PATTERNS.lwss, PATTERNS.mwss, PATTERNS.hwss]
shipTypes == <<lwss, mwss, hwss>>

\* let maxX = 0; for (const [x, y] of out) if (x > maxX) maxX = x;
maxXOf(coords) ==
    CHOOSE m \in {0} \cup {c[1] : c \in coords} :
        \A c \in coords : c[1] <= m

\* One turn of rotate: [x, y] becomes [y, maxX - x].
rotateOnce(coords) == {<<c[2], maxXOf(coords) - c[1]>> : c \in coords}

RECURSIVE rotateTimes(_, _)
rotateTimes(coords, n) ==
    IF n = 0 THEN coords ELSE rotateTimes(rotateOnce(coords), n - 1)

rotate(coords, times) == rotateTimes(coords, JsRem(JsRem(times, 4) + 4, 4))

idx(x, y, w) == y * w + x

\* stamp on the grid gr of w columns and h rows.  A write to an index the
\* typed array does not have is ignored.
stamp(gr, coords, ox, oy, w, h) ==
    [i \in DOMAIN gr |->
        IF \E c \in coords :
              idx(JsRem(ox + c[1] + w, w), JsRem(oy + c[2] + h, h), w) = i
        THEN 1 ELSE gr[i]]

\* Math.floor(Math.random() * k), the random number being n / RandomParts.
floorRandom(n, k) == (n * k) \div RandomParts

randomAt(rnd, i) == rnd.vals[((rnd.pos - 1 + i) % Len(rnd.vals)) + 1]

randomAfter(rnd, n) == [rnd EXCEPT !.pos = ((rnd.pos - 1 + n) % Len(rnd.vals)) + 1]

\* The body of the loops of placeGliders, injectGliders and injectShips
\* outside battle mode: r, ox and oy drawn in this order, the pattern
\* stamped, ox and oy drawn from 1 up to the side less `margin`.
stampRandomly(lf, base, margin) ==
    [lf EXCEPT
        !.gridA = stamp(lf.gridA,
                        rotate(base, floorRandom(randomAt(lf.rnd, 0), 4)),
                        floorRandom(randomAt(lf.rnd, 1), lf.cols - margin) + 1,
                        floorRandom(randomAt(lf.rnd, 2), lf.rows - margin) + 1,
                        lf.cols, lf.rows),
        !.rnd = randomAfter(lf.rnd, 3)]

\* injectGliders(count) from its pass i on; placeGliders is the same loop.
RECURSIVE injectGlidersFrom(_, _, _)
injectGlidersFrom(lf, i, count) ==
    IF i < count
    THEN injectGlidersFrom(TheOne({stampRandomly(lf, glider, 10)}), i + 1, count)
    ELSE lf

injectGliders(lf, count) == injectGlidersFrom(lf, 0, count)

RECURSIVE injectShipsFrom(_, _, _)
injectShipsFrom(lf, i, count) ==
    IF i < count
    THEN injectShipsFrom(
             TheOne({stampRandomly(lf, shipTypes[(i % Len(shipTypes)) + 1], 24)}),
             i + 1, count)
    ELSE lf

injectShips(lf, count) == injectShipsFrom(lf, 0, count)

\* The cell of the next generation with the neighbours beyond an edge of
\* the grid taken from the edge itself, no wrapping around.
nextCellClamped(gr, x, y, w, h) ==
    LET yUp == IF y = 0 THEN 0 ELSE y - 1
        yDn == IF y = h - 1 THEN h - 1 ELSE y + 1
        xLt == IF x = 0 THEN 0 ELSE x - 1
        xRt == IF x = w - 1 THEN w - 1 ELSE x + 1
        n == gr[idx(xLt, yUp, w)] + gr[idx(x, yUp, w)] + gr[idx(xRt, yUp, w)]
             + gr[idx(xLt, y, w)] + gr[idx(xRt, y, w)]
             + gr[idx(xLt, yDn, w)] + gr[idx(x, yDn, w)] + gr[idx(xRt, yDn, w)]
    IN  IF n = 3 \/ (gr[idx(x, y, w)] = 1 /\ n = 2) THEN 1 ELSE 0

\* The cell (x, y) of the next generation, from the grid gr.
nextCell(gr, x, y, w, h) ==
    LET yUp == IF y = 0 THEN h - 1 ELSE y - 1
        yDn == IF y = h - 1 THEN 0 ELSE y + 1
        xLt == IF x = 0 THEN w - 1 ELSE x - 1
        xRt == IF x = w - 1 THEN 0 ELSE x + 1
        n == gr[idx(xLt, yUp, w)] + gr[idx(x, yUp, w)] + gr[idx(xRt, yUp, w)]
             + gr[idx(xLt, y, w)] + gr[idx(xRt, y, w)]
             + gr[idx(xLt, yDn, w)] + gr[idx(x, yDn, w)] + gr[idx(xRt, yDn, w)]
    IN  IF n = 3 \/ (gr[idx(x, y, w)] = 1 /\ n = 2) THEN 1 ELSE 0

\* The two for loops of step: what they write into gridB.
nextGrid(gr, w, h) ==
    [i \in DOMAIN gr |-> nextCell(gr, i % w, i \div w, w, h)]

\* aliveNext and changed, counted in the loops of step.
aliveIn(gr) == Cardinality({i \in DOMAIN gr : gr[i] = 1})

changedBetween(gr, nx) == Cardinality({i \in DOMAIN gr : gr[i] # nx[i]})

\* changed < total * 0.002 || aliveNext < total * 0.003
\*     || aliveNext === lastAlive
isStagnant(changed, aliveNext, total, lastAlive) ==
    \/ changed * 1000 < total * 2
    \/ aliveNext * 1000 < total * 3
    \/ aliveNext = lastAlive

\* stableFrames > Math.max(60, 150 / densityFactor), densityFactor being 3.
pastThreshold(stableFrames) == stableFrames > 60 /\ stableFrames * 3 > 150

\* The end of step, the grids swapped and stableFrames updated: movers are
\* injected when stableFrames has passed the threshold.
injectIfStable(lf) ==
    IF pastThreshold(lf.stableFrames)
    THEN [TheOne({injectGliders(TheOne({injectShips(lf, 4)}), 6)})
             EXCEPT !.stableFrames = 0]
    ELSE lf

\* step once the loops have computed the grid nx.
stepWith(lf, nx) ==
    injectIfStable(
        [lf EXCEPT
            !.gridA = nx,
            !.gridB = lf.gridA,
            !.stableFrames =
                IF isStagnant(changedBetween(lf.gridA, nx), aliveIn(nx),
                              lf.cols * lf.rows, lf.lastAlive)
                THEN lf.stableFrames + 1 ELSE 0,
            !.lastAlive = aliveIn(nx),
            !.frames = lf.frames + 1])

step(lf) == stepWith(lf, TheOne({nextGrid(lf.gridA, lf.cols, lf.rows)}))

\* resize() in a window of w by h cells, then seed() with the preset
\* 'glider': cols and rows are the window's, the grids are new and empty,
\* placeGliders stamps 8 gliders.  stableFrames and lastAlive are kept.
resize(lf, w, h) ==
    injectGliders(
        [lf EXCEPT !.cols = w, !.rows = h,
                   !.gridA = [i \in 0..(w * h - 1) |-> 0],
                   !.gridB = [i \in 0..(w * h - 1) |-> 0]],
        8)

\* The script's variables as declared, before resize() has run: no grid,
\* no timer, stableFrames = 0 and lastAlive = 0.
declared(rnd) ==
    [cols |-> 0, rows |-> 0, gridA |-> <<>>, gridB |-> <<>>,
     stableFrames |-> 0, lastAlive |-> 0, rnd |-> rnd, frames |-> 0,
     resizeTimer |-> FALSE]

RandomSources ==
    {[vals |-> v, pos |-> 1] :
        v \in UNION {[1..n -> 0..(RandomParts - 1)] : n \in 1..MaxRandoms}}

\* The script's last lines: resize(), the listener, the first frame asked.
InitLife ==
    /\ StateIs(Loaded) /\ advances = 0 /\ recomputed = FALSE
    /\ call = <<>> /\ ret = None /\ copying = <<>>
    /\ \E w \in MinSide..MaxSide : \E h \in MinSide..MaxSide :
          \E rnd \in RandomSources : life = resize(declared(rnd), w, h)

\* animate: step(), then draw().
LifeStep ==
    /\ life.frames < MaxFrames
    /\ life' = step(life)
    /\ UNCHANGED <<call, ret, pageVars, copying>>

\* The window's resize event, onResize: the timer is cleared and set again,
\* so that one timeout is pending.
LifeResize ==
    /\ life' = [life EXCEPT !.resizeTimer = TRUE]
    /\ UNCHANGED <<call, ret, pageVars, copying>>

\* The timeout of onResize, 120 ms after the last resize event: resize()
\* in the window as it is then, w by h cells.
LifeResizeTimeout ==
    /\ life.resizeTimer
    /\ \E w \in MinSide..MaxSide : \E h \in MinSide..MaxSide :
          life' = [resize(life, w, h) EXCEPT !.resizeTimer = FALSE]
    /\ UNCHANGED <<call, ret, pageVars, copying>>

NextLife == LifeStep \/ LifeResize \/ LifeResizeTimeout

SpecLife == InitLife /\ [][NextLife]_vars

\* SpecFrames: the frames of animate in a window that is not resized.
NextFrames == LifeStep

SpecFrames == InitLife /\ [][NextFrames]_vars

(***************************************************************************)
(* Reference notions the properties are stated with: defined from          *)
(* arithmetic, not from the program.                                       *)
(***************************************************************************)
\* x^e mod m, by e = 2 * (e \div 2) + (e % 2).
RECURSIVE PowerMod(_, _, _)
TimesMod(h, k, m) == (h * k) % m

SquareTimes(h, odd, x, m) ==
    IF odd THEN TimesMod(TimesMod(h, h, m), x % m, m) ELSE TimesMod(h, h, m)

PowerMod(x, e, m) ==
    IF e = 0 THEN 1 % m
    ELSE SquareTimes(PowerMod(x, e \div 2, m), e % 2 = 1, x, m)

\* x^e, the product of e factors x.
RECURSIVE Power(_, _)
Power(x, e) == IF e = 0 THEN 1 ELSE x * Power(x, e - 1)

\* m divides x - y.
Congruent(x, y, m) == (x - y) % m = 0

\* n is a prime: at least 2, and no d with 1 < d < n divides it.
IsPrime(n) == n >= 2 /\ \A d \in 2..(n - 1) : n % d # 0

\* x has the order n - 1 modulo n: x^(n-1) is 1 and no lower power of x is.
HasFullOrder(x, n) ==
    /\ PowerMod(x, n - 1, n) = 1
    /\ \A k \in 1..(n - 2) : PowerMod(x, k, n) # 1

\* t is a numeral: decimal digits, at least one, with nothing but white
\* space before and after them.
IsDecimal(t) ==
    \E i \in 1..Len(t) : \E j \in i..Len(t) :
        \A k \in 1..Len(t) :
            IF k \in i..j THEN IsDigit(t[k]) ELSE t[k] \in WhiteSpace

\* The numbers the four fields show (where they show numbers).
pShown == parseBigIntDec(pInput).value
gShown == parseBigIntDec(gInput).value
aShown == parseBigIntDec(aInput).value
bShown == parseBigIntDec(bInput).value

FieldsAreDecimal ==
    IsDecimal(pInput) /\ IsDecimal(gInput) /\ IsDecimal(aInput) /\ IsDecimal(bInput)

\* The fields show a valid quadruple.
FieldsAreValid ==
    /\ FieldsAreDecimal
    /\ IsPrime(pShown)
    /\ 2 <= gShown /\ gShown <= pShown - 1
    /\ 2 <= aShown /\ aShown <= pShown - 2
    /\ 2 <= bShown /\ bShown <= pShown - 2

\* The message of the first constraint the fields violate, in the order
\* parse p, g, a, b; p >= 3; p prime; g, a, b in range.  "" if none.
FirstViolated ==
    IF ~IsDecimal(pInput) THEN "p: " \o ErrDigits
    ELSE IF ~IsDecimal(gInput) THEN "g: " \o ErrDigits
    ELSE IF ~IsDecimal(aInput) THEN "a: " \o ErrDigits
    ELSE IF ~IsDecimal(bInput) THEN "b: " \o ErrDigits
    ELSE IF pShown < 3 THEN MsgPSmall
    ELSE IF ~IsPrime(pShown) THEN MsgPNotPrime
    ELSE IF ~(2 <= gShown /\ gShown <= pShown - 1) THEN MsgGRange
    ELSE IF ~(2 <= aShown /\ aShown <= pShown - 2) THEN MsgARange
    ELSE IF ~(2 <= bShown /\ bShown <= pShown - 2) THEN MsgBRange
    ELSE ""

\* In SpecValidate the message box is empty until Validate has been clicked.
Validated == msgBox # ""

(***************************************************************************)
(* The properties.                                                         *)
(***************************************************************************)
\* C1 (SpecMath): for every prime p up to MaxPrime, g in 2..p-1 and a, b in
\* 2..p-2, modPow(modPow(g, a, p), b, p) = modPow(modPow(g, b, p), a, p):
\* the first is what step 8 stores in sBob, the second what step 7 stores in
\* sAlice.
C1_ModPowCommutes ==
    (IsKnown(sAlice) /\ IsKnown(sBob)) => Val(sAlice) = Val(sBob)

C1_Witness ==
    /\ p = 13 /\ g = 2 /\ a = 3 /\ b = 5
    /\ sAlice = Some(8) /\ sBob = Some(8)

\* C2: after nine nextStep calls in a row, the first at cursor 0 and the
\* fields valid, the cursor is 9, sAlice and sBob are known and equal, and
\* step 9 shows the match.
C2_NineAdvancesMatch ==
    advances = TOTAL_STEPS =>
        /\ stepIdx = TOTAL_STEPS
        /\ IsKnown(sAlice) /\ IsKnown(sBob) /\ sAlice = sBob
        /\ Len(stepsBox.steps) = TOTAL_STEPS
        /\ stepsBox.steps[TOTAL_STEPS][3] = <<MsgMatch>>

C2_Witness == advances = TOTAL_STEPS /\ stepIdx = TOTAL_STEPS /\ FieldsAreValid

\* C3: a derived value that is known is the value of its formula on the
\* stored quadruple: A = g^a mod p, B = g^b mod p, sAlice = B^a mod p,
\* sBob = A^b mod p; for 23, 5, 6, 15 they are 8, 19, 2, 2.
C3_DerivedValuesMatchFormulas ==
    /\ IsKnown(A) => Val(A) = PowerMod(g, a, p)
    /\ IsKnown(B) => Val(B) = PowerMod(g, b, p)
    /\ IsKnown(sAlice) => Val(sAlice) = PowerMod(PowerMod(g, b, p), a, p)
    /\ IsKnown(sBob) => Val(sBob) = PowerMod(PowerMod(g, a, p), b, p)
    /\ (p = 23 /\ g = 5 /\ a = 6 /\ b = 15) =>
          /\ IsKnown(A) => Val(A) = 8
          /\ IsKnown(B) => Val(B) = 19
          /\ IsKnown(sAlice) => Val(sAlice) = 2
          /\ IsKnown(sBob) => Val(sBob) = 2

C3_Witness ==
    /\ p = 23 /\ g = 5 /\ a = 6 /\ b = 15
    /\ A = Some(8) /\ B = Some(19) /\ sAlice = Some(2) /\ sBob = Some(2)

\* C4: when sAlice and sBob are both known they are equal, sAlice being
\* B^a mod p of the known B and sBob being A^b mod p of the known A.
C4_SecretsAgree ==
    (IsKnown(sAlice) /\ IsKnown(sBob)) =>
        /\ sAlice = sBob
        /\ IsKnown(A) /\ IsKnown(B)
        /\ Val(sAlice) = PowerMod(Val(B), a, p)
        /\ Val(sBob) = PowerMod(Val(A), b, p)

C4_Witness == IsKnown(sAlice) /\ IsKnown(sBob) /\ p > 1000 /\ a # b

\* C5: at cursor 3 and beyond A is known, at 5 and beyond B, at 7 and
\* beyond sAlice, at 8 and beyond sBob.
C5_DerivedKnownAtCursor ==
    /\ stepIdx >= 3 => IsKnown(A)
    /\ stepIdx >= 5 => IsKnown(B)
    /\ stepIdx >= 7 => IsKnown(sAlice)
    /\ stepIdx >= 8 => IsKnown(sBob)

C5_Witness ==
    /\ stepIdx = TOTAL_STEPS /\ FieldsAreValid
    /\ sAlice = None /\ sBob = None
    /\ stepsBox.steps[TOTAL_STEPS][3] = <<MsgNoMatch>>

\* A step that is nextStep called with fields that fail validation.
C6_Step ==
    (~validateParams(Cur, FALSE).ok /\ Becomes(nextStep(Cur))) =>
        /\ msgBox' = MsgFix
        /\ UNCHANGED <<stepIdx, A, B, sAlice, sBob, p, g, a, b>>

\* C6: nextStep called with fields that fail validation reports the failure
\* and leaves the cursor, the derived values and the stored quadruple alone.
C6_RejectedAdvanceChangesNothing == [][C6_Step]_vars

C6_Witness == msgBox = MsgFix /\ ~FieldsAreValid /\ stepIdx = 0

\* A step that is a click on Validate with fields that fail validation.
C7_Step ==
    (~validateParams(Cur, TRUE).ok /\ Becomes(validateClick(Cur))) =>
        UNCHANGED <<stepIdx, A, B, sAlice, sBob, p, g, a, b>>

\* While the fields fail validation, A and B are unknown.
C7_NoPublicValues == ~validateParams(Cur, FALSE).ok => (A = None /\ B = None)

\* C7: a validation that fails (p = 15, say) returns false and leaves the
\* stored quadruple, the cursor and the derived values alone, and while the
\* fields are invalid A and B are unknown.
C7_FailedValidationChangesNothing == [][C7_Step]_vars /\ []C7_NoPublicValues

C7_Witness ==
    /\ pInput = ToText(15) /\ msgBox = MsgPNotPrime
    /\ p = 23 /\ A = None /\ B = None

\* C8 (SpecValidate): with numerals in the four fields, validateParams
\* succeeds exactly when p is a prime, 2 <= g <= p-1, 2 <= a <= p-2 and
\* 2 <= b <= p-2, and then the stored quadruple is the numbers in the fields.
C8_ValidatesExactlyValid ==
    (Validated /\ FieldsAreDecimal) =>
        /\ (msgBox = MsgValid) <=> FieldsAreValid
        /\ msgBox = MsgValid =>
              (p = pShown /\ g = gShown /\ a = aShown /\ b = bShown)

C8_Witness ==
    /\ msgBox = MsgValid
    /\ p = 41 /\ g = 8 /\ a = 2 /\ b = 7

\* C9 (SpecValidate): a validation that fails shows the message of the first
\* constraint violated, in the order parse p, g, a, b; p >= 3; p prime; g, a,
\* b in range; the messages of the last four are four different messages.
C9_FirstViolatedIsReported ==
    /\ (Validated /\ msgBox # MsgValid) =>
          (FirstViolated # "" /\ msgBox = FirstViolated)
    /\ Cardinality({MsgPNotPrime, MsgGRange, MsgARange, MsgBRange}) = 4

C9_Witness ==
    /\ msgBox = MsgBRange
    /\ pShown = 7 /\ gShown = 6 /\ aShown = 5 /\ bShown = 6

\* A step that is nextStep called at cursor 9.
C10_Step ==
    (stepIdx = TOTAL_STEPS /\ Becomes(nextStep(Cur))) =>
        /\ stepIdx' = TOTAL_STEPS
        /\ UNCHANGED <<A, B, sAlice, sBob>>

\* C10: nextStep at cursor 9 leaves the cursor at 9 and A, B, sAlice and
\* sBob as they are.
C10_AdvanceAtEndIsNoOp == [][C10_Step]_vars

C10_Witness ==
    advances = TOTAL_STEPS + 1 /\ stepIdx = TOTAL_STEPS /\ IsKnown(sBob)

\* A step that is prevStep called.
C11_Step ==
    Becomes(prevStep(Cur)) =>
        /\ stepIdx' = IF stepIdx > 0 THEN stepIdx - 1 ELSE 0
        /\ UNCHANGED <<p, g, a, b, A, B, sAlice, sBob>>

\* C11: prevStep takes the cursor down by exactly one when it is above 0 and
\* does nothing at cursor 0; it leaves the stored quadruple and the four
\* derived values as they are.
C11_RetreatKeepsValues == [][C11_Step]_vars

\* Below cursor 3 with A known: the cursor came down from 9 by prevStep.
C11_Witness ==
    /\ stepIdx = 0
    /\ IsKnown(A) /\ IsKnown(B) /\ IsKnown(sAlice) /\ IsKnown(sBob)

\* A step that is resetAll called.
C12_Step ==
    Becomes(resetAll(Cur)) =>
        /\ stepIdx' = 0
        /\ A' = None /\ B' = None /\ sAlice' = None /\ sBob' = None
        /\ timer' = FALSE /\ intervals' = 0

\* C12: from any reachable state resetAll leaves the cursor at 0, the four
\* derived values unknown and auto-advance stopped.
C12_ResetClears == [][C12_Step]_vars

\* The composite 15 is stored by resetAll only.
C12_Witness ==
    /\ p = 15 /\ stepIdx = 0 /\ ~timer /\ intervals = 0
    /\ A = None /\ B = None /\ sAlice = None /\ sBob = None

\* A step that is resetAll called.
C13_Step ==
    Becomes(resetAll(Cur)) =>
        \/ UNCHANGED <<p, g, a, b>>
        \/ /\ validateParams(Cur, FALSE).ok
           /\ p' = pShown /\ g' = gShown /\ a' = aShown /\ b' = bShown

\* C13: resetAll keeps the stored quadruple unless the fields hold a
\* quadruple that passes validation, which it stores: it never stores a
\* quadruple that fails validation.
C13_ResetStoresOnlyValid == [][C13_Step]_vars

\* The stored modulus is the composite 15 that the field p shows.
C13_Witness ==
    /\ pInput = ToText(15) /\ p = 15 /\ ~IsPrime(p)
    /\ ~validateParams(Cur, FALSE).ok

\* A step that is an edit of one of the four fields.
C14_Step ==
    (\E field \in Fields : \E text \in TypedTexts(field) :
        Becomes(typeInto(Cur, field, text))) =>
        /\ stepIdx' = 0
        /\ A' = None /\ B' = None /\ sAlice' = None /\ sBob' = None
        /\ timer' = FALSE /\ intervals' = 0

\* C14: an edit of any of the four fields, in any reachable state, has the
\* effect of a reset: the cursor is 0, the four derived values are unknown
\* and auto-advance is stopped.
C14_EditResets == [][C14_Step]_vars

\* The list of steps is empty after an edit only.
C14_Witness ==
    /\ stepsBox = EmptySteps /\ aInput = ToText(22)
    /\ stepIdx = 0 /\ A = None /\ B = None /\ sAlice = None /\ sBob = None
    /\ ~timer

\* C15: with no reset, edit or randomization in between, a derived value is
\* computed once: nextStep entering step 3, 5, 7 or 8 again after prevStep,
\* the value of that step known, does not assign it again.
C15_ComputedOnce == ~recomputed

\* A is known and shown at cursor 3 by a nextStep that has just assigned it
\* over the known A.
C15_Witness == recomputed /\ stepIdx = 3 /\ A = Some(8) /\ sBob = None

\* The derived values that are known have their values in s too.
KnownValuesKeptIn(s) ==
    /\ IsKnown(A) => s.A = A
    /\ IsKnown(B) => s.B = B
    /\ IsKnown(sAlice) => s.sAlice = sAlice
    /\ IsKnown(sBob) => s.sBob = sBob

\* C16: whatever the order of prevStep and nextStep calls, a derived value
\* that is known keeps the value it had when first computed: in every
\* reachable state, the state nextStep leaves and the state prevStep leaves
\* hold every known derived value unchanged.
C16_KnownValuesStay ==
    KnownValuesKeptIn(nextStep(Cur)) /\ KnownValuesKeptIn(prevStep(Cur))

\* sBob has been assigned again, over the known sBob, at step 8.
C16_Witness ==
    /\ recomputed /\ stepIdx = 8
    /\ p = 23 /\ A = Some(8) /\ B = Some(19) /\ sAlice = Some(2) /\ sBob = Some(2)

\* C17: the cursor is an integer in 0..9 in every reachable state, and one
\* call of nextStep, of prevStep or of the timer's callback moves it by one
\* step up, by one step down, or not at all.
C17_CursorMovesByOne ==
    /\ stepIdx \in 0..TOTAL_STEPS
    /\ nextStep(Cur).stepIdx - stepIdx \in {0, 1}
    /\ prevStep(Cur).stepIdx - stepIdx \in {-1, 0}
    /\ timerCallback(Cur).stepIdx - stepIdx \in {0, 1}

\* Nine calls of nextStep in a row made by the timer.
C17_Witness == advances = TOTAL_STEPS /\ timer /\ stepIdx = TOTAL_STEPS

\* The timer's callback clears the timer at the last step only.
C18_Step ==
    (timer /\ ~timer' /\ Becomes(timerCallback(Cur))) => stepIdx = TOTAL_STEPS

\* C18 as stated (SpecAuto): auto-advance once started, the cursor reaches 9
\* and the timer then stops itself, unless auto-advance is cancelled first.
C18_AutoReachesEnd == (timer ~> ~timer) /\ [][C18_Step]_vars

\* C18 (SpecAuto): auto-advance started over fields that hold a valid
\* quadruple, the cursor reaches 9 and the timer then stops itself, unless
\* auto-advance is cancelled first.
C18_AutoReachesEndIfValid ==
    ((timer /\ FieldsAreValid) ~> ~timer) /\ [][C18_Step]_vars

\* The timer has made nine calls of nextStep in a row; its next call stops it.
C18_Witness ==
    /\ timer /\ FieldsAreValid /\ advances = TOTAL_STEPS
    /\ timerCallback(Cur).timer = FALSE /\ verifyOk(Cur)

\* The cursor, the stored quadruple and the derived values of s.
SessionOf(s) ==
    <<s.stepIdx, s.p, s.g, s.a, s.b, s.A, s.B, s.sAlice, s.sBob>>

\* C19 (Spec): stopping auto-advance takes effect at once and the session can
\* go on.  Whenever the timer flag is off no interval is live, so that no
\* timer-driven advance can happen before auto-advance is started again (the
\* tick needs a live interval); and in every reachable state stopAuto returns
\* with the flag off, no interval live, the buttons Step and Previous
\* enabled, and the cursor, the quadruple and the derived values as they were.
C19_StopIsSynchronous ==
    /\ ~timer => intervals = 0
    /\ ~stopAuto(Cur).timer /\ stopAuto(Cur).intervals = 0
    /\ ~stopAuto(Cur).btnStepDisabled /\ ~stopAuto(Cur).btnPrevDisabled
    /\ SessionOf(stopAuto(Cur)) = SessionOf(Cur)

\* The timer is running in the middle of the sequence, A known and B not yet:
\* stopAuto has an interval to clear and a session to keep.
C19_Witness ==
    /\ timer /\ intervals = 1 /\ stepIdx = 4 /\ IsKnown(A) /\ B = None
    /\ btnStepDisabled /\ btnPrevDisabled
    /\ stopAuto(Cur).intervals = 0 /\ stopAuto(Cur).stepIdx = 4

\* C20 (Spec): while the timer is on, the buttons Step and Previous are
\* disabled and exactly one interval is live, so that the only calls of
\* nextStep are the timer's and there is no call of prevStep; Reset, full
\* randomization and an edit of a field, which can still run, each return
\* with the timer off and no interval live, and the click on the verbose
\* button changes neither the cursor nor the quadruple nor the derived values.
C20_TimerOwnsCursor ==
    timer =>
        /\ btnStepDisabled /\ btnPrevDisabled /\ intervals = 1
        /\ ~resetAll(Cur).timer /\ resetAll(Cur).intervals = 0
        /\ \A q \in RandomQuads :
               ~randomizeAll(Cur, q).timer /\ randomizeAll(Cur, q).intervals = 0
        /\ \A field \in Fields : \A text \in TypedTexts(field) :
               /\ ~typeInto(Cur, field, text).timer
               /\ typeInto(Cur, field, text).intervals = 0
        /\ SessionOf(verboseClick(Cur)) = SessionOf(Cur)
        /\ verboseClick(Cur).timer

\* The timer has made four calls of nextStep in a row and is still on, with
\* the two buttons disabled; a Reset here has a timer to stop.
C20_Witness ==
    /\ timer /\ advances = 4 /\ stepIdx = 4
    /\ btnStepDisabled /\ btnPrevDisabled
    /\ ~resetAll(Cur).timer /\ resetAll(Cur).stepIdx = 0

\* The box shows the unknown marker, or, with the cursor at `from` or past it,
\* the decimal text of the derived value o.
RevealedFrom(from, box, o) ==
    \/ box = Unknown
    \/ stepIdx >= from /\ IsKnown(o) /\ box = ToText(Val(o))

\* C21 (Spec): in every reachable state the A box shows a number only with
\* the cursor at 3 or past it, the B box at 5 or past it, the box of Alice's
\* secret at 7 or past it and the box of Bob's secret at 8 or past it; the
\* number is the derived value, and a box that shows no number shows "?".
C21_RevealedAtStep ==
    /\ RevealedFrom(3, ABox, A)
    /\ RevealedFrom(5, BBox, B)
    /\ RevealedFrom(7, S1Box, sAlice)
    /\ RevealedFrom(8, S2Box, sBob)

\* After a retreat from step 5 to step 4: B is known and its box is masked
\* again, A is still shown.
C21_Witness ==
    /\ stepIdx = 4 /\ IsKnown(B) /\ BBox = Unknown
    /\ IsKnown(A) /\ ABox = ToText(Val(A))

\* The cursor and the derived values of s.
CursorAndValues(s) == <<s.stepIdx, s.A, s.B, s.sAlice, s.sBob>>

\* C22 (Spec): from every reachable state, an edit of a field and full
\* randomization leave the cursor at 0 and the derived values unknown, as
\* Reset does, and the click on Validate, randomize-secrets, the verbose
\* toggle and starting or stopping auto-advance leave the cursor and the
\* derived values as they were.
C22_OnlyStepperMutates ==
    /\ \A field \in Fields : \A text \in TypedTexts(field) :
          CursorAndValues(typeInto(Cur, field, text)) =
              CursorAndValues(resetAll(Cur))
    /\ \A q \in RandomQuads :
          CursorAndValues(randomizeAll(Cur, q)) = CursorAndValues(resetAll(Cur))
    /\ CursorAndValues(verboseClick(Cur)) = CursorAndValues(Cur)
    /\ CursorAndValues(toggleAuto(Cur)) = CursorAndValues(Cur)
    /\ CursorAndValues(validateClick(Cur)) = CursorAndValues(Cur)
    /\ \A rs \in Sources :
          \A s \in secretsOutcomes(randomizeSecrets(Cur, rs)) :
              CursorAndValues(s) = CursorAndValues(Cur)

\* Validate has been clicked at cursor 5 with valid fields: the cursor is
\* still 5 and the derived values are gone.
C22_Witness ==
    /\ stepIdx = 5 /\ msgBox = MsgValid /\ FieldsAreValid
    /\ A = None /\ B = None /\ ABox = Unknown /\ BBox = Unknown

\* C23 (SpecRandom): from every reachable state and for every outcome of the
\* random source, randomize-secrets called with fields that pass validation
\* ends with a and b in 2..p-2 for the p of the fields, shown in their
\* fields, and with p and g and their fields as validation left them; called
\* with fields that fail validation it leaves a, b and their fields alone;
\* and full randomization ends with a and b in 2..p-2 for the p it has drawn.
C23_SecretsInRange ==
    /\ \A rs \in AnySources :
          \A s \in secretsOutcomes(randomizeSecrets(Cur, rs)) :
              IF validateParams(Cur, FALSE).ok
              THEN /\ s.a \in 2..(s.p - 2) /\ s.b \in 2..(s.p - 2)
                   /\ s.aInput = ToText(s.a) /\ s.bInput = ToText(s.b)
                   /\ s.p = pShown /\ s.g = gShown
                   /\ s.pInput = pInput /\ s.gInput = gInput
              ELSE <<s.a, s.b, s.aInput, s.bInput>> = <<a, b, aInput, bInput>>
    /\ \A q \in AnyQuads :
          /\ randomizeAll(Cur, q).a \in 2..(randomizeAll(Cur, q).p - 2)
          /\ randomizeAll(Cur, q).b \in 2..(randomizeAll(Cur, q).p - 2)

\* Randomize-secrets has just stored a = p - 1 for a prime p, and shows it:
\* the fields now fail validation.
C23_Witness ==
    /\ msgBox = MsgSecrets /\ IsPrime(p) /\ a = p - 1 /\ aInput = ToText(a)
    /\ pInput = ToText(p) /\ ~validateParams(Cur, FALSE).ok

\* Every quadruple randomizeAll may draw has a prime p in 401..2000 and a g
\* of order p - 1 modulo p.
AnyQuadsAreSound ==
    \A q \in AnyQuads :
        /\ IsPrime(q.p) /\ DemoMinP <= q.p /\ q.p <= DemoMaxP
        /\ HasFullOrder(q.g, q.p)

\* C24 (SpecRandom): from every reachable state and for every outcome of the
\* random source, randomizeAll returns with the timer off, the cursor at 0
\* and the derived values unknown, the stored quadruple being the one drawn,
\* whose p is a prime in 401..2000 and whose g has order p - 1 modulo p, and
\* the four fields showing the decimal text of the stored quadruple.
C24_RandomizeAllReplaces ==
    /\ AnyQuadsAreSound
    /\ \A q \in AnyQuads : \A s \in {randomizeAll(Cur, q)} :
          /\ ~s.timer /\ s.intervals = 0
          /\ CursorAndValues(s) = <<0, None, None, None, None>>
          /\ <<s.p, s.g, s.a, s.b>> = <<q.p, q.g, q.a, q.b>>
          /\ s.pInput = ToText(s.p) /\ s.gInput = ToText(s.g)
          /\ s.aInput = ToText(s.a) /\ s.bInput = ToText(s.b)
          /\ parseBigIntDec(s.pInput).value = s.p
          /\ parseBigIntDec(s.gInput).value = s.g
          /\ parseBigIntDec(s.aInput).value = s.a
          /\ parseBigIntDec(s.bInput).value = s.b

\* The timer is on at cursor 5 with A and B known, and randomizeAll may draw
\* p = 419 here: it has a timer to stop and a session to replace.
C24_Witness ==
    /\ timer /\ stepIdx = 5 /\ IsKnown(A) /\ IsKnown(B)
    /\ \E q \in AnyQuads :
          /\ q.p = 419 /\ q.a = 418
          /\ randomizeAll(Cur, q).stepIdx = 0 /\ ~randomizeAll(Cur, q).timer
          /\ randomizeAll(Cur, q).pInput = ToText(419)

\* The call in the state is a call of `name` that has returned.
Returned(name) == call # <<>> /\ call[1] = name /\ IsKnown(ret)

\* C25 (SpecCalls): for every base in -MaxBase..MaxBase, negative bases and
\* bases beyond the modulus included, every exponent in 0..MaxExp and every
\* modulus in 1..MaxMod, modPow(base, exponent, modulus) returns the number
\* r in 0..modulus-1 that is congruent to base^exponent modulo the modulus;
\* it returns 0 when the modulus is 1.
C25_ModPowIsPowerMod ==
    Returned("modPow") =>
        /\ Val(ret) \in 0..(call[4] - 1)
        /\ Congruent(Power(call[2], call[3]), Val(ret), call[4])
        /\ call[4] = 1 => Val(ret) = 0

\* modPow(-5, 3, 7) has returned 1: -125 = 7 * (-18) + 1.
C25_Witness ==
    Returned("modPow") /\ call = <<"modPow", -5, 3, 7>> /\ ret = Some(1)

\* C26: for every n in 0..MaxTested, which holds the primes and composites
\* below 2050, the squares 1681 and 1849 of primes above 37 and the base-2
\* pseudoprime 2047, isProbablePrime(n) is true exactly when n is prime.
C26_PrimalityIsExact ==
    Returned("isProbablePrime") => (Val(ret) <=> IsPrime(call[2]))

\* isProbablePrime has returned false for 2047 = 23 * 89, which passes the
\* Miller-Rabin test to base 2.
C26_Witness ==
    /\ Returned("isProbablePrime")
    /\ call[2] = 2047
    /\ check(2, 1023, 1, 2047)
    /\ ret = Some(FALSE)

\* C27: for every bound >= 1 and every byte sequence of the random source,
\* randomBigIntBelow(bound) returns a value of 0..bound-1 only;
\* randomBigIntBelow(0) returns, and returns 0 with the random source where it
\* was, no byte drawn.
C27_BelowBound ==
    /\ Returned("randomBigIntBelow") /\ call[2] >= 1 =>
            Val(ret).val \in 0..(call[2] - 1)
    /\ Returned("randomBigIntBelow") /\ call[2] = 0 =>
            Val(ret).val = 0 /\ Val(ret).rs = Source(call[3])
    /\ call # <<>> /\ call[1] = "randomBigIntBelow" /\ call[2] = 0 =>
            randomBigIntBelow(0, Source(call[3])).ok

\* randomBigIntBelow(5) has returned 3, the second draw, after the first
\* draw, 7, was rejected.
C27_Witness ==
    /\ Returned("randomBigIntBelow")
    /\ call = <<"randomBigIntBelow", 5, <<7, 3>>>>
    /\ Val(ret).val = 3

\* The smaller and the larger of two integers.
Least(x, y) == IF x <= y THEN x ELSE y
Greatest(x, y) == IF x <= y THEN y ELSE x

\* Whatever the endpoints, each value of the closed range between them is
\* returned by randomBigIntInRange for some bytes of the random source.
EveryValueIsDrawn ==
    \A lo \in (-MaxEnd)..MaxEnd : \A hi \in (-MaxEnd)..MaxEnd :
        \A v \in Least(lo, hi)..Greatest(lo, hi) :
            \E bytes \in CallStreams :
                LET r == randomBigIntInRange(lo, hi, Source(bytes))
                IN  r.ok /\ r.val = v

\* C28: for all min and max, randomBigIntInRange(min, max) returns a value
\* between the smaller and the larger of min and max, inclusive, also when
\* the endpoints are given in reverse; and every value of that closed range
\* is a possible result.
C28_InRange ==
    /\ Returned("randomBigIntInRange") =>
          /\ Least(call[2], call[3]) <= Val(ret).val
          /\ Val(ret).val <= Greatest(call[2], call[3])
    /\ EveryValueIsDrawn

\* randomBigIntInRange(3, -2), endpoints reversed, has returned 1, neither
\* endpoint.
C28_Witness ==
    /\ Returned("randomBigIntInRange")
    /\ call[2] = 3 /\ call[3] = -2
    /\ Val(ret).val = 1

\* An odd prime of DemoMinP..DemoMaxP.
IsDemoPrime(x) ==
    x % 2 = 1 /\ IsPrime(x) /\ DemoMinP <= x /\ x <= DemoMaxP

\* Whichever value of the normalized range 401..1999 is drawn as the
\* candidate, randomPrimeInRange(401, 2000) goes on to return an odd prime
\* of the range.
EveryDrawGivesPrime ==
    LET r == normalizedRange(DemoMinP, DemoMaxP)
    IN  \A c \in r[1]..r[2] :
            IsDemoPrime(primeFromDraw([ok |-> TRUE, val |-> c,
                                       rs |-> Source(<<0>>)], r[1], r[2]).val)

\* C29: whatever the random source yields, randomPrimeInRange(401, 2000)
\* returns an odd prime p with 401 <= p <= 2000.
C29_PrimeInRange ==
    /\ /\ Returned("randomPrimeInRange")
       /\ call[2] = DemoMinP /\ call[3] = DemoMaxP
       => IsDemoPrime(Val(ret).val)
    /\ EveryDrawGivesPrime

\* randomPrimeInRange(401, 2000) has returned 1181: the draw 3 * 256 + 3
\* gives the candidate 401 + 771 = 1172, made odd, and the scan passes the
\* composites 1173, 1175, 1177 and 1179.
C29_Witness ==
    /\ Returned("randomPrimeInRange")
    /\ call[2] = DemoMinP /\ call[3] = DemoMaxP
    /\ call[4] = <<3>>
    /\ ~isProbablePrime(1173) /\ ~isProbablePrime(1179)
    /\ Val(ret).val = 1181

\* C30: for every prime p up to MaxGenPrime and whatever the random source
\* yields, findGenerator(p) returns g whose multiplicative order modulo p is
\* p - 1: g^(p-1) is 1 modulo p and no smaller positive power of g is.
C30_GeneratorHasFullOrder ==
    Returned("findGenerator") => HasFullOrder(Val(ret).val, call[2])

\* findGenerator(2) has returned 0, drawn from the range 0..2 that the
\* endpoints 2 and p - 2 = 0 make when swapped; p - 1 = 1 has no prime
\* factor, so no candidate is tested.
C30_Witness ==
    /\ Returned("findGenerator")
    /\ call[2] = 2
    /\ primeFactorsDistinct(1) = <<>>
    /\ Val(ret).val = 0
    /\ ~HasFullOrder(0, 2)

\* What randomBigIntBelow(bound) does with each possible first draw of one
\* byte, the source repeating that byte.
FirstDraws(bound) ==
    [y \in 0..ByteMax |-> randomBigIntBelow(bound, Source(<<y>>))]

\* The draws of f that are accepted and give v.
DrawsGiving(f, v) == {y \in DOMAIN f : f[y].ok /\ f[y].val = v}

\* y masked to the bit length of bound.
Masked(y, bound) == y % Pow2(bitLength(bound))

\* For the bounds of one byte: each value below the bound is given by the
\* same number of draws, those that mask to it, and a draw that masks to the
\* bound or more is given no value.
UniformBelow ==
    \A bound \in 1..MaxBelow :
        LET f == FirstDraws(bound)
        IN  /\ \A v \in 0..(bound - 1) :
                  /\ DrawsGiving(f, v) = {y \in 0..ByteMax : Masked(y, bound) = v}
                  /\ Cardinality(DrawsGiving(f, v)) =
                        (ByteMax + 1) \div Pow2(bitLength(bound))
            /\ \A y \in 0..ByteMax : Masked(y, bound) >= bound => ~f[y].ok

\* C31: randomBigIntBelow is unbiased.  Among the draws of one byte, each
\* value of 0..bound-1 is produced by the same number of draws; a draw whose
\* masked value is the bound or more is rejected and the next draw decides,
\* the rejected value is never reduced modulo the bound.
C31_Unbiased ==
    /\ UniformBelow
    /\ /\ Returned("randomBigIntBelow")
       /\ call[2] >= 1
       /\ Len(call[3]) = 2
       /\ Masked(call[3][1], call[2]) >= call[2]
       => Val(ret).val = Masked(call[3][2], call[2])

\* randomBigIntBelow(6) has returned 4, the second draw, after the first
\* draw, 7, was rejected; 7 modulo 6 is 1.
C31_Witness ==
    /\ Returned("randomBigIntBelow")
    /\ call = <<"randomBigIntBelow", 6, <<7, 4>>>>
    /\ Val(ret).val = 4
    /\ Cardinality(DrawsGiving(FirstDraws(6), 4)) = 32

\* The range randomPrimeInRange is to search, from the arguments: each bound
\* raised to 5 at least, the lower made odd upward and the upper downward,
\* the two swapped if inverted.
AtLeastFive(x) == IF x < 5 THEN 5 ELSE x
OddAbove(x) == IF x % 2 = 0 THEN x + 1 ELSE x
OddBelow(x) == IF x % 2 = 0 THEN x - 1 ELSE x
SearchLow(lo, hi) ==
    Least(OddAbove(AtLeastFive(lo)), OddBelow(AtLeastFive(hi)))
SearchHigh(lo, hi) ==
    Greatest(OddAbove(AtLeastFive(lo)), OddBelow(AtLeastFive(hi)))

\* x is what a search for a prime in lo..hi is to give: a prime of the
\* range, or 101 if the range has none.
IsPrimeOfOr101(x, lo, hi) ==
    IF \E k \in lo..hi : IsPrime(k)
    THEN x \in lo..hi /\ IsPrime(x)
    ELSE x = 101

\* Whatever the bounds, and whichever value of the range to search is drawn
\* as the candidate, randomPrimeInRange goes on to return a prime of that
\* range, or 101 if it has none.
EveryDrawEndsOnPrime ==
    \A lo \in RangeEnds : \A hi \in RangeEnds :
        \A c \in SearchLow(lo, hi)..SearchHigh(lo, hi) :
            IsPrimeOfOr101(
                primeFromDraw([ok |-> TRUE, val |-> c, rs |-> Source(<<0>>)],
                              SearchLow(lo, hi), SearchHigh(lo, hi)).val,
                SearchLow(lo, hi), SearchHigh(lo, hi))

\* C32: for all min and max, randomPrimeInRange returns a prime: a prime of
\* the normalized range (bounds raised to at least 5, made odd, swapped if
\* inverted) when that range holds one, and 101 otherwise.
C32_PrimeOrLastResort ==
    /\ Returned("randomPrimeInRange") =>
          IsPrimeOfOr101(Val(ret).val, SearchLow(call[2], call[3]),
                         SearchHigh(call[2], call[3]))
    /\ EveryDrawEndsOnPrime

\* randomPrimeInRange(24, 28) has returned 101: the range to search is
\* 25..27, which holds no prime.
C32_Witness ==
    /\ Returned("randomPrimeInRange")
    /\ call[2] = 24 /\ call[3] = 28
    /\ normalizedRange(24, 28) = <<25, 27>>
    /\ Val(ret).val = 101

\* The candidates the randomized scan of the call in `call` has tested.
TestedInCall ==
    LET r == normalizedRange(call[2], call[3])
    IN  testedFromDraw(randomBigIntInRange(r[1], r[2], Source(call[4])).val,
                       r[1], r[2])

\* The number of odd integers in lo..hi.
OddCount(lo, hi) == Cardinality({k \in lo..hi : k % 2 = 1})

\* The sequence t starts inside lo..hi, holds odd numbers of lo..hi only,
\* and each is its predecessor plus 2, or lo when that passes hi.
ScansUpwardWithin(t, lo, hi) ==
    /\ Len(t) >= 1
    /\ \A i \in 1..Len(t) : t[i] \in lo..hi /\ t[i] % 2 = 1
    /\ \A i \in 1..(Len(t) - 1) :
          t[i + 1] = IF t[i] + 2 > hi THEN lo ELSE t[i] + 2

\* C33: the randomized scan of randomPrimeInRange starts at an odd candidate
\* of the normalized range, moves upward by 2, wraps to the lower bound past
\* the upper, tests no candidate outside the range, and tests at most as
\* many candidates as the range holds odd integers.
C33_ScanWithinBudget ==
    Returned("randomPrimeInRange") =>
        /\ ScansUpwardWithin(TestedInCall, SearchLow(call[2], call[3]),
                             SearchHigh(call[2], call[3]))
        /\ Len(TestedInCall) <=
              OddCount(SearchLow(call[2], call[3]), SearchHigh(call[2], call[3]))

\* randomPrimeInRange(24, 28) has returned: its randomized scan has tested
\* 25, 27 and 25 again, three candidates for the two odd integers of 25..27.
C33_Witness ==
    /\ Returned("randomPrimeInRange")
    /\ call[2] = 24 /\ call[3] = 28 /\ call[4] = <<0>>
    /\ TestedInCall = <<25, 27, 25>>
    /\ OddCount(25, 27) = 2

\* The candidates findGenerator draws in the call in `call`.
DrawnInCall == candidatesDrawn(call[2], Source(call[3]))

\* Every element of the sequence d is in lo..hi.
AllWithin(d, lo, hi) == \A i \in 1..Len(d) : d[i] \in lo..hi

\* C34 as stated: for every prime p, every candidate findGenerator draws and
\* the value it returns lie in 2..p-2.
C34_CandidatesInRange ==
    Returned("findGenerator") =>
        /\ Val(ret).val \in 2..(call[2] - 2)
        /\ AllWithin(TheOne({DrawnInCall}), 2, call[2] - 2)

\* C34, amended: for every prime p >= 5, every candidate findGenerator draws
\* and the value it returns lie in 2..p-2.
C34_CandidatesInRangeFromFive ==
    Returned("findGenerator") /\ call[2] >= 5 =>
        /\ Val(ret).val \in 2..(call[2] - 2)
        /\ AllWithin(TheOne({DrawnInCall}), 2, call[2] - 2)

\* findGenerator(7) has returned 3 from its linear search, after drawing 2,
\* which is no generator, in each of its GeneratorAttempts passes.
C34_Witness ==
    /\ Returned("findGenerator")
    /\ call[2] = 7 /\ call[3] = <<0>>
    /\ Len(DrawnInCall) = GeneratorAttempts
    /\ DrawnInCall[GeneratorAttempts] = 2
    /\ Val(ret).val = 3

\* The prime factors of n.
PrimeFactors(n) == {q \in 1..n : IsPrime(q) /\ n % q = 0}

\* C35: for every n in 1..MaxFactored, primeFactorsDistinct(n) returns the
\* distinct prime factors of n, each listed once, and nothing else: the
\* empty list for n = 1.
C35_DistinctPrimeFactors ==
    Returned("primeFactorsDistinct") =>
        /\ {Val(ret)[i] : i \in 1..Len(Val(ret))} = PrimeFactors(call[2])
        /\ Len(Val(ret)) = Cardinality(PrimeFactors(call[2]))
        /\ call[2] = 1 => Val(ret) = <<>>

\* primeFactorsDistinct(180) has returned 2, 3 and 5: 180 = 2^2 * 3^2 * 5
\* has two of its prime factors repeated.
C35_Witness ==
    /\ Returned("primeFactorsDistinct")
    /\ call[2] = 180
    /\ ret = Some(<<2, 3, 5>>)

\* The eight directions to a neighbour.
Directions == {d \in (-1..1) \X (-1..1) : d # <<0, 0>>}

\* The number of live neighbours of the cell (x, y) on the torus of w columns
\* and h rows.
LiveNeighbours(gr, x, y, w, h) ==
    Cardinality({d \in Directions :
                    gr[((y + d[2] + h) % h) * w + ((x + d[1] + w) % w)] = 1})

\* Conway's rule for one cell, its number of live neighbours being n.
Conway(alive, n) == IF n = 3 \/ (alive = 1 /\ n = 2) THEN 1 ELSE 0

\* The next generation of the grid gr on the torus.
NextGeneration(gr, w, h) ==
    [i \in DOMAIN gr |->
        Conway(gr[i], LiveNeighbours(gr, i % w, i \div w, w, h))]

\* Every cell alive in the grid lo is alive in the grid hi.
GridWithin(lo, hi) == \A i \in DOMAIN lo : lo[i] <= hi[i]

\* C36 as stated: one step() makes the grid the next generation by Conway's
\* rule on a torus (a cell is alive iff it had 3 live neighbours, or was
\* alive with 2, the 8 neighbours wrapping around the edges), and the old
\* grid, only read, is left as it was.
C36_StepIsConway ==
    [][life'.frames = life.frames + 1 =>
          /\ life'.gridA = NextGeneration(life.gridA, life.cols, life.rows)
          /\ life'.gridB = life.gridA]_vars

\* C36, amended: one step() computes the next generation by Conway's rule on
\* a torus, the old grid only read, and that generation is the new grid
\* whenever fewer than 60 stagnant frames precede the step; otherwise step()
\* may go on to stamp ships and gliders on it, which only adds live cells.
C36_StepIsConwayUnlessInjected ==
    [][life'.frames = life.frames + 1 =>
          /\ GridWithin(NextGeneration(life.gridA, life.cols, life.rows),
                        life'.gridA)
          /\ life.stableFrames < 60 =>
                life'.gridA = NextGeneration(life.gridA, life.cols, life.rows)
          /\ life'.gridB = life.gridA]_vars

\* step() has run 62 times on a grid of 10 by 11 and has just injected ships
\* and gliders: the new grid holds more live cells than the next generation
\* of the old grid, still in gridB.
C36_Witness ==
    /\ life.frames = 62
    /\ life.cols = 10 /\ life.rows = 11
    /\ life.stableFrames = 0
    /\ aliveIn(life.gridA) >
          aliveIn(NextGeneration(life.gridB, life.cols, life.rows))

\* C37: in every reachable state, after any sequence of validate, advance,
\* retreat, reset, input edit, randomize-secrets and full randomization, the
\* stored quadruple passes validation: p is prime, g is in 2..p-1, a and b
\* are in 2..p-2.
C37_StoredQuadrupleIsValid ==
    /\ IsPrime(p)
    /\ g \in 2..(p - 1)
    /\ a \in 2..(p - 2)
    /\ b \in 2..(p - 2)

\* The stored modulus is the composite 15, typed into the field p and stored
\* by a reset, which has left the session at cursor 0 with no value derived.
C37_Witness ==
    /\ p = 15 /\ ~IsPrime(p)
    /\ pInput = ToText(15)
    /\ stepIdx = 0 /\ A = None
    /\ ~validateParams(Cur, FALSE).ok

\* C38: in every reachable state the timer is on if and only if each of the
\* buttons Step, Previous, Randomize-secrets and Validate is disabled;
\* startAuto called while the timer is on sets no second interval, so at
\* most one interval is ever live, and one is live exactly when the timer is
\* on.
C38_TimerIffControlsDisabled ==
    /\ timer <=> btnStepDisabled
    /\ timer <=> btnPrevDisabled
    /\ timer <=> btnRandomDisabled
    /\ timer <=> btnValidateDisabled
    /\ intervals = IF timer THEN 1 ELSE 0
    /\ startAuto(Cur).timer /\ startAuto(Cur).intervals = 1
    /\ timer => startAuto(Cur) = Cur

\* The timer is on at cursor 2, the four buttons disabled, and startAuto
\* called here returns at once.
C38_Witness ==
    /\ timer /\ stepIdx = 2 /\ intervals = 1
    /\ btnStepDisabled /\ btnPrevDisabled
    /\ btnRandomDisabled /\ btnValidateDisabled
    /\ startAuto(Cur) = Cur

\* The call c = <<base, exponent, modulus>> is one that modPow is meant for
\* in the session that the fields, read as numerals, describe: the modulus is
\* the prime p >= 5 of the field p, the exponent is the a or the b of its
\* field and is in 2..p-2, and the base is the g of its field, in 2..p-1, or
\* a derived value that the session s holds, in 0..p-1.
IsSoundCall(c, s) ==
    /\ c[3] = parseBigIntDec(pInput).value
    /\ IsPrime(c[3]) /\ c[3] >= 5
    /\ c[2] \in {parseBigIntDec(aInput).value, parseBigIntDec(bInput).value}
    /\ c[2] \in 2..(c[3] - 2)
    /\ \/ c[1] = parseBigIntDec(gInput).value /\ c[1] \in 2..(c[3] - 1)
       \/ c[1] \in {Val(o) : o \in {s.A, s.B} \ {None}} /\ c[1] \in 0..(c[3] - 1)

\* The odd part of n >= 1.
RECURSIVE OddPart(_)
OddPart(n) == IF n % 2 = 0 THEN OddPart(n \div 2) ELSE n

\* The call c = <<base, exponent, modulus>> is one of a Miller-Rabin round on
\* the number the field p shows: the modulus is that number, which is at
\* least 41 and has no prime factor up to 37, the base is one of 2, 3, 5, 7,
\* 11, 13 and 17, and the exponent is the odd part of the modulus minus 1.
IsRoundCall(c) ==
    /\ c[3] = parseBigIntDec(pInput).value
    /\ c[3] >= 41 /\ \A k \in 2..37 : c[3] % k # 0
    /\ c[1] \in {2, 3, 5, 7, 11, 13, 17}
    /\ c[2] = OddPart(c[3] - 1)

\* The calls of modPow made while nextStep runs, as a set.
CallsInStep == {modPowCalls(Cur)[i] : i \in 1..Len(modPowCalls(Cur))}

\* C39 as stated: every call of modPow made while nextStep runs has a prime
\* modulus p >= 5, an exponent a or b in 2..p-2, and as its base g in 2..p-1
\* or a value derived before, in 0..p-1; no value that has not passed
\* validation, and no negative value, reaches modPow through nextStep.
C39_ModPowCallsAreSound ==
    \A c \in CallsInStep : IsSoundCall(c, nextStep(Cur))

\* C39 as amended: every call of modPow made while nextStep runs is either
\* one of the switch, with a prime modulus p >= 5, an exponent a or b in
\* 2..p-2, and as its base g in 2..p-1 or a value derived before, in 0..p-1,
\* or one of a Miller-Rabin round of the validation, on the number the field
\* p shows, which has not passed validation yet; the calls of the switch are
\* made only when validation has passed, and no negative value reaches
\* modPow.
C39_ModPowCallsAreSoundOrRounds ==
    /\ \A c \in CallsInStep : c[1] >= 0 /\ c[2] >= 0 /\ c[3] >= 1
    /\ \A i \in 1..Len(modPowCalls(Cur)) :
          IF i <= Len(callsOfValidate(readInputs(Cur)))
          THEN IsRoundCall(modPowCalls(Cur)[i])
          ELSE IsSoundCall(modPowCalls(Cur)[i], nextStep(Cur))
    /\ ~validateParams(Cur, FALSE).ok =>
          Len(modPowCalls(Cur)) = Len(callsOfValidate(readInputs(Cur)))

\* The field p shows 41, the cursor is at 6 with B unknown, after a click on
\* Validate: the next call of nextStep calls modPow seven times for the
\* primality of 41, then twice more, for B and then for sAlice with the
\* base B.
C39_Witness ==
    /\ stepIdx = 6 /\ B = None /\ pInput = ToText(41)
    /\ Len(modPowCalls(Cur)) = 9
    /\ modPowCalls(Cur)[1] = <<2, 5, 41>>
    /\ modPowCalls(Cur)[9][1] = Val(nextStep(Cur).B)
    /\ IsKnown(nextStep(Cur).sAlice)

\* What the randomized scan ends with when c is drawn in lo..hi: the prime it
\* has found, or -1 when its tries have run out.
ScanFoundFromDraw(c, lo, hi) ==
    primeScan(IF c % 2 = 0 THEN c + 1 ELSE c, 0, scanLimit(lo, hi), lo, hi)

\* The sequence t holds every odd integer of lo..hi.
HoldsEveryOdd(t, lo, hi) ==
    \A k \in {n \in lo..hi : n % 2 = 1} : \E i \in 1..Len(t) : t[i] = k

\* With c drawn in lo..hi: if the randomized scan runs out of tries, it has
\* tested every odd integer of lo..hi, the fallback scan finds no prime, and
\* 101 is returned.
ExhaustedScanGives101(c, lo, hi) ==
    ScanFoundFromDraw(c, lo, hi) = -1 =>
        /\ HoldsEveryOdd(testedFromDraw(c, lo, hi), lo, hi)
        /\ primeFallback(lo, hi) = 101
        /\ primeFromDraw([ok |-> TRUE, val |-> c, rs |-> Source(<<0>>)],
                         lo, hi).val = 101

\* Whatever the bounds, and whichever value of the range to search is drawn
\* as the candidate, a scan that runs out of tries leads to 101.
EveryExhaustedScanGives101 ==
    \A lo \in RangeEnds : \A hi \in RangeEnds :
        \A c \in SearchLow(lo, hi)..SearchHigh(lo, hi) :
            ExhaustedScanGives101(c, SearchLow(lo, hi), SearchHigh(lo, hi))

\* The candidate drawn by the call of randomPrimeInRange in `call`.
DrawnCandidateInCall ==
    LET r == normalizedRange(call[2], call[3])
    IN  randomBigIntInRange(r[1], r[2], Source(call[4])).val

\* C40: in randomPrimeInRange, a randomized scan whose tries run out has
\* tested every odd integer of the normalized range, so that each time the
\* fallback scan is reached it finds no prime and 101 is returned.
C40_FallbackFindsNothing ==
    /\ Returned("randomPrimeInRange") =>
          /\ ExhaustedScanGives101(DrawnCandidateInCall,
                                   SearchLow(call[2], call[3]),
                                   SearchHigh(call[2], call[3]))
          /\ ScanFoundFromDraw(DrawnCandidateInCall,
                               SearchLow(call[2], call[3]),
                               SearchHigh(call[2], call[3])) = -1
                => Val(ret).val = 101
    /\ EveryExhaustedScanGives101

\* randomPrimeInRange(24, 28) has returned 101 with 26 drawn: the scan has
\* tested 27 and 25, the two odd integers of 25..27, and 27 again, and the
\* fallback scan has been reached.
C40_Witness ==
    /\ Returned("randomPrimeInRange")
    /\ call[2] = 24 /\ call[3] = 28
    /\ DrawnCandidateInCall = 26
    /\ ScanFoundFromDraw(26, 25, 27) = -1
    /\ TestedInCall = <<27, 25, 27>>
    /\ Val(ret).val = 101

=============================================================================
